---- MODULE Spec2Model ----
(***************************************************************************)
(* Model of the spatial arbitrage strategy between the on-chain venue      *)
(* (GalaSwap, "venue A") and the centralized venue (Binance, "venue B"):   *)
(* ArbitrageStrategy.doTick with its candidate search, the evaluators      *)
(* checkArbitrageOpportunity / checkReverseArbitrageOpportunity, the GWETH *)
(* circuit breaker and the dual-venue executor executeArbitrage.           *)
(*                                                                         *)
(* Numbers.  The code computes in IEEE doubles.  The model uses fixed      *)
(* point: token amounts are integers in 1/1000 of a token, USD values and  *)
(* prices are integers in 1/1000 USD, fee rates are parts per million,     *)
(* times are milliseconds.  A division rounds down.                        *)
(***************************************************************************)
EXTENDS Integers, Sequences, FiniteSets, TLC

VARIABLES
  clock,                \* Date.now()
  lastArbitrageCheck,   \* this.lastArbitrageCheck
  gwethFailureCount,    \* this.gwethFailureCount
  gwethLastFailureTime, \* this.gwethLastFailureTime
  allowLoss,            \* this.ALLOW_LOSS_TRADES (differs between the two versions of the class)
  pc,                   \* position of the running doTick; "idle" between ticks
  market,               \* venue-B prices during the tick: [GALAUSDT, ETHUSDT, GALAETH]
  tokens,               \* arbitrageableTokens of the tick
  tokenIdx,             \* index of the token of the outer loop
  validSizes,           \* validSizes of the current token
  sizeIdx,              \* index of the trade size of the ladder loop
  shouldSkipGweth,      \* const shouldSkipGweth of the current token
  availableUsdt,        \* availableUsdt of the reverse section of the current token
  bestOpportunity,      \* let bestOpportunity
  allOpportunities,     \* const allOpportunities
  lastEval,             \* the evaluation that produced the latest candidate, with the quote it used
  calls,                \* adapter calls made by the latest step
  alerts,               \* reporter.sendAlert calls of the tick, by kind
  executed,             \* the opportunity handed to executeArbitrage in the tick
  diagnostic,           \* the log entry of the tick that did not execute (lines 714-785), or NULL
  executions,           \* number of executeArbitrage calls of the tick
  swapReq,              \* argument of galaChainRouter.requestSwap in the tick
  sdkSwap,              \* what requestSwap handed to gSwap.swaps.swap in the tick
  binanceOrder,         \* const binanceOrder of executeReverseArbitrage: the order venue B returned
  order,                \* argument of binanceTrading.executeTradeForArbitrage in the tick
  leg1,                 \* outcome of the first leg: "none", "ok", "threw"
  leg2,                 \* outcome of the second leg: "none", "ok", "threw", "skipped"
  exc,                  \* TRUE while an exception is unwinding to doTick's catch
  checks,               \* calls of the two evaluators made by the latest step: pair, why unavailable, result
  tickResult,           \* how the latest doTick ended: "none", "running", "rateLimited", "returned", "threw"
  loopPc,               \* position of main() / mainLoop / mainLoopTick
  tickNo,               \* number of mainLoopTick calls started
  strategyIdx,          \* index of the strategy of mainLoopTick's loop over strategies
  ownData,              \* which of ownSwaps, ownBalances, token values were fetched (else empty)
  tickErr,              \* the error unwinding from mainLoopTick, "none" if none
  loopLog,              \* logger.error entries of the main loop, by place
  loopAlerts,           \* reporter.sendAlert calls of the main loop, by kind
  ticksRunning,         \* mainLoopTick calls that have started and not yet settled
  doTickCalls,          \* the doTick calls of the current mainLoopTick: strategy and options
  feeQuote,             \* the quote a fee computation works on: [feeTier, galaAmount]
  feeOut,               \* what the latest fee computation returned
  tradePc,              \* position of the running BinanceTrading call; "idle" between calls
  trade,                \* the IBinanceTrade of the call, with skipAmountChecks
  venueFree,            \* free balances on venue B during the call, and whether getBalances answers
  attempts,             \* order-creation requests placeOrder has sent in the call
  ordersCreated,        \* orders venue B has created for the call
  v1Pc,                 \* position of doTick of arbitrage_strategy.ts; "idle" between ticks
  v1Sizes,              \* its validSizes
  v1Idx,                \* index of the trade size under evaluation
  v1Usdt,               \* its availableUsdt
  v1Best,               \* its bestOpportunity
  v1All,                \* its allOpportunities
  v1Executed,           \* the opportunity it handed to executeArbitrage in the tick
  tradingNow,           \* Date.now() as BinanceTradingStrategy sees it
  hourStartTime,        \* BinanceTradingStrategy.hourStartTime
  tradesThisHour,       \* BinanceTradingStrategy.tradesThisHour, by symbol
  lastTradeTime,        \* BinanceTradingStrategy.lastTradeTime, by symbol-SIDE key
  windowTrades          \* orders executeTrade returned since the counters were last cleared, by symbol

vars == <<clock, lastArbitrageCheck, gwethFailureCount, gwethLastFailureTime,
          allowLoss, pc, market, tokens, tokenIdx, validSizes, sizeIdx,
          shouldSkipGweth, availableUsdt, bestOpportunity, allOpportunities,
          lastEval, calls, checks, alerts, executed, diagnostic, executions, swapReq, sdkSwap, order,
          binanceOrder,
          leg1, leg2, exc,
          tickResult, loopPc, tickNo, strategyIdx, ownData, tickErr, loopLog, loopAlerts,
          ticksRunning, doTickCalls, feeQuote, feeOut,
          tradePc, trade, venueFree, attempts, ordersCreated,
          v1Pc, v1Sizes, v1Idx, v1Usdt, v1Best, v1All, v1Executed,
          tradingNow, hourStartTime, tradesThisHour, lastTradeTime, windowTrades>>

NULL == [null |-> TRUE]
NoPrice == 0
NoSymbol == ""
THROWN == [thrown |-> TRUE]

----------------------------------------------------------------------------
(* Constants of the class (src/unnamed/part_011).                          *)

GALA_AMOUNT == 5000000
MIN_PROFIT_GALA == 500
BINANCE_MARKET_FEE_RATE == 1000
BINANCE_MAKER_FEE_RATE == 200
USE_LIMIT_ORDERS == TRUE
GAS_FEE_GALA == 200
MIN_GALA_AMOUNT == 500000
TRADE_SIZE_OPTIONS == <<500000, 1000000, 2000000, 3000000, 4000000, 5000000>>
ALTERNATIVE_PAIRS == <<[galaToken |-> "GALA", receivingToken |-> "GUSDC"],
                       [galaToken |-> "GALA", receivingToken |-> "GUSDT"]>>
ARBITRAGE_CHECK_INTERVAL == 60000
GWETH_MAX_FAILURES == 3
GWETH_RETRY_INTERVAL == 300000
DEFAULT_FEE_TIER == 3000
MIN_REVERSE_USDT == 10000

----------------------------------------------------------------------------
(* Bounds of the model.                                                    *)

MaxClock == 720000
MaxFailures == 6
MaxTicks == 12
MaxTradingClock == 4200000

(* The environment: what the two venues and the caller can hand in.        *)
StartClock == GWETH_RETRY_INTERVAL
ClockSteps == {30000, 60000, 300000}
(* GALAUSDT and ETHUSDT in 1/1000 USD, GALAETH in 1/1000000 ETH *)
Markets == {[GALAUSDT |-> 20, ETHUSDT |-> 2500000, GALAETH |-> 8]}
Holdings == { <<[collection |-> "GALA", quantity |-> 1000000]>>,
              <<[collection |-> "GWETH", quantity |-> 4]>>,
              <<[collection |-> "GUSDC", quantity |-> 40000]>>,
              <<[collection |-> "SILK", quantity |-> 1000000]>> }
UsdtBalances == {0, 15000}

(* quotes: amountOut = amountIn * num / den, with the fee tier of the pool *)
QuoteCases(tokenIn, tokenOut) ==
  IF tokenIn = "GALA" /\ tokenOut = "GWETH"
    THEN {[num |-> 8, den |-> 1000000, feeTier |-> 10000],
          [num |-> 10, den |-> 1000000, feeTier |-> 3000]}
  ELSE IF tokenIn = "GALA"
    THEN {[num |-> 20, den |-> 1000, feeTier |-> 3000],
          [num |-> 251, den |-> 12500, feeTier |-> 3000],
          [num |-> 251, den |-> 12500, feeTier |-> 500],
          [num |-> 1256, den |-> 62500, feeTier |-> 3000],
          [num |-> 25, den |-> 1000, feeTier |-> 0]}
  ELSE {[num |-> 2500, den |-> 1, feeTier |-> 3000],
        [num |-> 2400, den |-> 1, feeTier |-> 500]}

QuoteFailures == {"liquidity", "error"}

QuoteResults(tokenIn, tokenOut, amountIn) ==
  {[kind |-> k, amountOut |-> 0, feeTier |-> 0] : k \in QuoteFailures}
  \cup {[kind |-> "ok", amountOut |-> (amountIn * c.num) \div c.den, feeTier |-> c.feeTier] :
          c \in QuoteCases(tokenIn, tokenOut)}

(* what quoteExactInput gives inside requestSwap, at execution time: a     *)
(* failure, or the quote of the pool at the 0.30% tier, which is not       *)
(* always the quote the evaluation saw                                     *)
ExecutionQuoteResults(tokenIn, tokenOut, amountIn) ==
  {q \in QuoteResults(tokenIn, tokenOut, amountIn) :
     q.kind = "ok" => \E c \in QuoteCases(tokenIn, tokenOut) :
                        /\ c.feeTier = DEFAULT_FEE_TIER
                        /\ c.den \in {1, 1000, 1000000}
                        /\ q.feeTier = c.feeTier
                        /\ q.amountOut = (amountIn * c.num) \div c.den}

(* binance/types.ts, line 44: the status venue B reports for a LIMIT GTC   *)
(* order it has accepted                                                   *)
OrderStatuses == {"NEW", "PARTIALLY_FILLED", "FILLED"}

(* binanceApi.getPrice: the market price, or null *)
PriceResults(symbol) == {market[symbol], NoPrice}

----------------------------------------------------------------------------
(* Arithmetic helpers.                                                     *)

(* x * rate, the rate in parts per million (a multiple of 100 ppm) *)
MulRate(x, ppm) == (x * (ppm \div 100)) \div 10000

Min(a, b) == IF a <= b THEN a ELSE b
Max(a, b) == IF a >= b THEN a ELSE b

RECURSIVE Insert(_, _)
Insert(x, s) ==
  IF s = <<>> THEN <<x>>
  ELSE IF x < Head(s) THEN <<x>> \o s
  ELSE <<Head(s)>> \o Insert(x, Tail(s))

(* Array.prototype.sort((a, b) => a - b) *)
RECURSIVE SortAsc(_)
SortAsc(s) == IF s = <<>> THEN <<>> ELSE Insert(Head(s), SortAsc(Tail(s)))

----------------------------------------------------------------------------
(* doTick, lines 144-187: the holdings that have a venue-B mapping.        *)

GetBinanceSymbol(collection, mappingEnabled) ==
  IF ~mappingEnabled THEN NoSymbol
  ELSE IF collection = "GALA" THEN "GALAUSDT"
  ELSE IF collection = "GWETH" THEN "ETHUSDT"
  ELSE IF collection = "GUSDC" THEN "USDCUSDT"
  ELSE IF collection = "GUSDT" THEN "USDTUSD"
  ELSE NoSymbol

ArbitrageableTokens(ownBalances, mappingEnabled) ==
  SelectSeq(ownBalances,
            LAMBDA b : GetBinanceSymbol(b.collection, mappingEnabled) # NoSymbol
                       /\ b.quantity > 0)

(* doTick, lines 249-286: the ladder of one holding *)
MaxTradeAmount(tokenName, balance) ==
  IF tokenName = "GALA" THEN GALA_AMOUNT
  ELSE IF tokenName = "GWETH" THEN Min(balance \div 2, 100)
  ELSE IF tokenName \in {"GUSDC", "GUSDT"} THEN Min(balance \div 2, 1000000)
  ELSE Min(balance \div 2, 1000000)

MinTradeAmount(tokenName, balance) ==
  IF tokenName = "GALA" THEN MIN_GALA_AMOUNT
  ELSE IF tokenName = "GWETH" THEN 1
  ELSE IF tokenName \in {"GUSDC", "GUSDT"} THEN 10000
  ELSE Min(balance \div 10, 100000)

TradeSizeOptions(tokenName, balance) ==
  IF tokenName = "GALA" THEN TRADE_SIZE_OPTIONS
  ELSE IF tokenName = "GWETH" THEN <<1, 5, 10, 20, 50, 100>>
  ELSE IF tokenName \in {"GUSDC", "GUSDT"}
    THEN <<10000, 25000, 50000, 100000, 250000, 500000, 1000000>>
  ELSE LET m == MinTradeAmount(tokenName, balance)
           arr == <<Max(m, balance \div 10), Max(m, balance \div 4), Max(m, balance \div 2)>>
           keep == {i \in 1..3 : arr[i] > 0 /\ (i = 1 \/ arr[i] # arr[i - 1])}
           RECURSIVE Pick(_)
           Pick(i) == IF i > 3 THEN <<>>
                      ELSE (IF i \in keep THEN <<arr[i]>> ELSE <<>>) \o Pick(i + 1)
       IN Pick(1)

ValidSizes_Unfiltered(tokenName, balance) == TradeSizeOptions(tokenName, balance)

(* lines 284-286: tradeSizeOptions.filter(size => size <= balance &&       *)
(* size <= maxTradeAmount && size >= minTradeAmount).sort((a, b) => a - b) *)
ValidSizes(tokenName, balance) ==
  SortAsc(SelectSeq(TradeSizeOptions(tokenName, balance),
                    LAMBDA size : /\ size <= balance
                                  /\ size <= MaxTradeAmount(tokenName, balance)
                                  /\ size >= MinTradeAmount(tokenName, balance)))

(* a breaker that stays open whatever time has passed *)
ShouldSkipGweth_Permanent(tokenName, failureCount, lastFailureTime, now) ==
  /\ tokenName = "GALA"
  /\ failureCount >= GWETH_MAX_FAILURES

(* doTick, lines 314-316 *)
ShouldSkipGweth(tokenName, failureCount, lastFailureTime, now) ==
  /\ tokenName = "GALA"
  /\ failureCount >= GWETH_MAX_FAILURES
  /\ (now - lastFailureTime) < GWETH_RETRY_INTERVAL

----------------------------------------------------------------------------
(* checkArbitrageOpportunity, lines 822-1106.  q is what getQuote did,     *)
(* pQuote and pGala what getPrice(quoteCurrency) and getPrice('GALAUSDT')  *)
(* returned (NoPrice for null).  The result is the returned object, or     *)
(* NULL.                                                                   *)

IsStablecoin(token) == token \in {"GUSDC", "GUSDT"}

(* line 927 *)
QuoteFeeTier(q) == IF q.feeTier # 0 THEN q.feeTier ELSE DEFAULT_FEE_TIER

(* a fixed 0.30% estimate instead of the quote's tier *)
ActualGalaSwapFeeRate_Fixed(feeTier) == DEFAULT_FEE_TIER

(* line 933: feeTier / 1000000, as parts per million *)
ActualGalaSwapFeeRate(feeTier) == feeTier

BinanceFeeRate_Taker == BINANCE_MARKET_FEE_RATE

(* lines 1053 and 1135: this.USE_LIMIT_ORDERS ? this.BINANCE_MAKER_FEE_RATE *)
(* : this.BINANCE_MARKET_FEE_RATE                                          *)
BinanceFeeRate == IF USE_LIMIT_ORDERS THEN BINANCE_MAKER_FEE_RATE ELSE BINANCE_MARKET_FEE_RATE

(* lines 955-974 *)
QuotePriceUsdt(receivingToken, pQuote) ==
  IF IsStablecoin(receivingToken) THEN 1000 ELSE pQuote

(* lines 1003-1010 *)
UsdtValue(receivingToken, receivingTokenAmount, quotePriceUsdt) ==
  IF receivingToken = "GWETH" THEN (receivingTokenAmount * quotePriceUsdt) \div 1000
  ELSE receivingTokenAmount

(* lines 1013-1028 *)
TokenBuyableOnBinance(galaToken, usdtValue, quotePriceUsdt, galaPriceUsdt) ==
  IF galaToken = "GALA" THEN (usdtValue * 1000) \div galaPriceUsdt
  ELSE IF galaToken = "GWETH" THEN (usdtValue * 1000) \div quotePriceUsdt
  ELSE (usdtValue * 1000) \div galaPriceUsdt

(* lines 1049-1059 *)
TotalFees(galaAmount, feeTier, galaBuyableOnBinance) ==
  MulRate(galaAmount, ActualGalaSwapFeeRate(feeTier))
  + MulRate(galaBuyableOnBinance, BinanceFeeRate)
  + GAS_FEE_GALA

(* line 1069 *)
NetProfit(galaBuyableOnBinance, galaAmount, totalFees) ==
  galaBuyableOnBinance - galaAmount - totalFees

(* an evaluator that lets the failure escape to its caller *)
OnUnavailable_Throw(reason) == THROWN

(* lines 909, 913, 972, 986, 1105 and 1119, 1176, 1230: every path on which *)
(* the quote or a price is missing ends in "return null"                   *)
OnUnavailable(reason) == NULL

(* why one evaluation has no result: the quote call failed (with its kind  *)
(* of failure), a price lookup returned null, or "none"                    *)
Unavailability(receivingToken, q, pQuote, pGala) ==
  IF q.kind # "ok" THEN q.kind
  ELSE IF ~IsStablecoin(receivingToken) /\ pQuote = NoPrice THEN "price"
  ELSE IF pGala = NoPrice THEN "price"
  ELSE "none"

ResultOf(opp) == IF opp = NULL THEN "null" ELSE IF opp = THROWN THEN "threw" ELSE "value"

CheckArbitrageOpportunity(galaAmount, galaToken, receivingToken, q, pQuote, pGala) ==
  IF q.kind # "ok" THEN OnUnavailable(q.kind)
  ELSE IF ~IsStablecoin(receivingToken) /\ pQuote = NoPrice THEN OnUnavailable("price")
  ELSE IF pGala = NoPrice THEN OnUnavailable("price")
  ELSE LET quotePriceUsdt == QuotePriceUsdt(receivingToken, pQuote)
           usdtValue == UsdtValue(receivingToken, q.amountOut, quotePriceUsdt)
           buyable == TokenBuyableOnBinance(galaToken, usdtValue, quotePriceUsdt, pGala)
           totalFees == TotalFees(galaAmount, QuoteFeeTier(q), buyable)
       IN [receivingTokenAmount |-> q.amountOut,
           galaBuyableOnBinance |-> buyable,
           totalFees |-> totalFees,
           netProfit |-> NetProfit(buyable, galaAmount, totalFees),
           pair |-> <<galaToken, receivingToken>>]

(* every result one call of checkArbitrageOpportunity can have, with the   *)
(* quote and the prices that gave it                                       *)
CheckOutcomes(galaAmount, galaToken, receivingToken, quoteCurrency) ==
  {[opp |-> CheckArbitrageOpportunity(galaAmount, galaToken, receivingToken, q, pq, pg),
    quote |-> q,
    check |-> [direction |-> "GalaSwap->Binance",
               pair |-> <<galaToken, receivingToken>>,
               reason |-> Unavailability(receivingToken, q, pq, pg),
               result |-> ResultOf(CheckArbitrageOpportunity(galaAmount, galaToken,
                                                             receivingToken, q, pq, pg))]] :
     q \in QuoteResults(galaToken, receivingToken, galaAmount),
     pq \in (IF IsStablecoin(receivingToken) THEN {NoPrice} ELSE PriceResults(quoteCurrency)),
     pg \in PriceResults("GALAUSDT")}

(* checkReverseArbitrageOpportunity, lines 1112-1231 *)
CheckReverseArbitrageOpportunity(galaAmount, usdtNeeded, pGala, q) ==
  IF pGala = NoPrice THEN OnUnavailable("price")
  ELSE IF q.kind # "ok" THEN OnUnavailable(q.kind)
  ELSE LET binanceBuyFee == MulRate((galaAmount * pGala) \div 1000, BinanceFeeRate)
           totalCostUsdt == usdtNeeded + binanceBuyFee
           usdtReceived == q.amountOut
           estimatedGalaSwapFee == MulRate(galaAmount, ActualGalaSwapFeeRate(QuoteFeeTier(q)))
           totalFees == binanceBuyFee + estimatedGalaSwapFee + GAS_FEE_GALA
           netProfit == usdtReceived - totalCostUsdt - totalFees
           netProfitGala == (netProfit * 1000) \div pGala
       IN [receivingTokenAmount |-> q.amountOut,
           galaBuyableOnBinance |-> galaAmount,
           totalFees |-> totalFees,
           netProfit |-> netProfitGala,
           pair |-> <<"GALA", "GUSDC">>]

----------------------------------------------------------------------------
(* One iteration of the ladder loop, lines 331-485: the candidates tried   *)
(* at one trade size, in order, until one is not null.                     *)

NoQuote == [kind |-> "none", amountOut |-> 0, feeTier |-> 0]

(* the adapter calls one call of checkArbitrageOpportunity makes *)
CheckCalls(receivingToken, q) ==
  {IF receivingToken = "GWETH" THEN "getQuote:GWETH" ELSE "getQuote:stable"}
  \cup (IF q.kind = "ok" THEN {"getPrice:search"} ELSE {})

(* lines 396-431 and 436-474: for (...) { opp = await check(...); if (opp) break; } *)
RECURSIVE TryPairs(_, _, _)
TryPairs(tradeSize, galaToken, receivers) ==
  IF receivers = <<>> THEN {[opp |-> NULL, quote |-> NoQuote, calls |-> {}, checks |-> {}]}
  ELSE LET first == CheckOutcomes(tradeSize, galaToken, Head(receivers), "USDT")
       IN {[opp |-> o.opp, quote |-> o.quote, calls |-> CheckCalls(Head(receivers), o.quote),
            checks |-> {o.check}] :
             o \in {x \in first : x.opp # NULL}}
          \cup {[opp |-> r.opp, quote |-> r.quote,
                 calls |-> r.calls \cup CheckCalls(Head(receivers), o.quote),
                 checks |-> r.checks \cup {o.check}] :
                  o \in {x \in first : x.opp = NULL},
                  r \in TryPairs(tradeSize, galaToken, Tail(receivers))}

AlternativeReceivers == <<ALTERNATIVE_PAIRS[1].receivingToken, ALTERNATIVE_PAIRS[2].receivingToken>>

(* every evaluation of the step touches the breaker *)
PrimaryEvaluated_AnyPair(stepCalls) == stepCalls # {}

(* lines 344-346: the breaker is touched only inside                       *)
(* if (tokenName === 'GALA') { if (!shouldSkipGweth) { ... } }, after the  *)
(* GALA/GWETH evaluation                                                   *)
PrimaryEvaluated(stepCalls) == "getQuote:GWETH" \in stepCalls

(* lines 358-393: the GWETH circuit breaker after a primary-pair check *)
BreakerAfter(failureCount, lastFailureTime, now, opp) ==
  IF opp = NULL
    THEN [count |-> failureCount + 1, last |-> now]
    ELSE [count |-> 0, last |-> lastFailureTime]

(* lines 498-506 and 592-598 *)
IsCandidate(opp, allow) ==
  opp.netProfit > 0 \/ (allow /\ opp.netProfit <= 0)

(* a comparison that lets an equal candidate replace the best *)
Exceeds_OrEqual(a, b) == a >= b

(* lines 505-506 and 596-597: arbitrageOpportunity.netProfit > bestOpportunity.netProfit *)
Exceeds(a, b) == a > b

(* the latest candidate replaces the best whenever it is a candidate *)
IsBetter_LastWins(opp, best, allow) ==
  \/ best = NULL
  \/ opp.netProfit > 0
  \/ (allow /\ opp.netProfit <= 0 /\ best.netProfit <= 0)

IsBetter(opp, best, allow) ==
  \/ best = NULL
  \/ (opp.netProfit > 0 /\ Exceeds(opp.netProfit, best.netProfit))
  \/ (allow /\ opp.netProfit <= 0 /\ best.netProfit <= 0
        /\ Exceeds(opp.netProfit, best.netProfit))

Selected(opp, tradeSize, direction, tokenName) ==
  [receivingTokenAmount |-> opp.receivingTokenAmount,
   galaBuyableOnBinance |-> opp.galaBuyableOnBinance,
   totalFees |-> opp.totalFees,
   netProfit |-> opp.netProfit,
   pair |-> opp.pair,
   tradeAmount |-> tradeSize,
   direction |-> direction,
   token |-> tokenName]

(* lines 487-541 and 583-633: record the candidate, keep the best *)
BestAfter(opp, best, allow, tradeSize, direction, tokenName) ==
  IF opp # NULL /\ IsCandidate(opp, allow) /\ IsBetter(opp, best, allow)
    THEN Selected(opp, tradeSize, direction, tokenName)
    ELSE best

AllAfter(opp, all, tradeSize, direction, tokenName) ==
  IF opp = NULL THEN all
  ELSE Append(all, [tradeSize |-> tradeSize, netProfit |-> opp.netProfit,
                    pair |-> opp.pair, direction |-> direction, token |-> tokenName])

EvalAfter(opp, quote, tradeSize, direction, tokenName, old) ==
  IF opp = NULL THEN old
  ELSE [opp |-> opp, quote |-> quote, tradeSize |-> tradeSize,
        direction |-> direction, token |-> tokenName]

(* the candidates of one forward iteration for a GALA holding *)
GalaIteration(tradeSize, skip) ==
  LET primary == IF skip THEN {[opp |-> NULL, quote |-> NoQuote, check |-> NULL]}
                 ELSE CheckOutcomes(tradeSize, "GALA", "GWETH", "ETHUSDT")
      pcalls(o) == IF skip THEN {} ELSE CheckCalls("GWETH", o.quote)
      pchecks(o) == IF skip THEN {} ELSE {o.check}
  IN {[opp |-> o.opp, quote |-> o.quote, calls |-> pcalls(o), checks |-> pchecks(o),
       primary |-> o.opp] :
        o \in {x \in primary : x.opp # NULL}}
     \cup {[opp |-> r.opp, quote |-> r.quote, calls |-> r.calls \cup pcalls(o),
            checks |-> r.checks \cup pchecks(o), primary |-> NULL] :
             o \in {x \in primary : x.opp = NULL},
             r \in TryPairs(tradeSize, "GALA", AlternativeReceivers)}

(* the candidates of one reverse iteration, lines 562-635 *)
ReverseIteration(tradeSize, tokenName, symbol, available) ==
  LET skipped == [opp |-> NULL, quote |-> NoQuote, calls |-> {"getPrice:search"}, checks |-> {}]
  IN UNION {
       IF p = NoPrice THEN {skipped}
       ELSE IF (tradeSize * p) \div 1000 > available THEN {skipped}
       ELSE IF tokenName # "GALA" THEN {skipped}
       ELSE {[opp |-> CheckReverseArbitrageOpportunity(tradeSize, (tradeSize * p) \div 1000, pg, q),
              quote |-> q,
              calls |-> {"getPrice:search"}
                        \cup (IF pg = NoPrice THEN {} ELSE {"getQuote:stable"}),
              checks |-> {[direction |-> "Binance->GalaSwap",
                           pair |-> <<"GALA", "GUSDC">>,
                           reason |-> IF pg = NoPrice THEN "price"
                                      ELSE IF q.kind # "ok" THEN q.kind ELSE "none",
                           result |-> ResultOf(CheckReverseArbitrageOpportunity(
                                                 tradeSize, (tradeSize * p) \div 1000, pg, q))]}] :
               pg \in PriceResults("GALAUSDT"),
               q \in QuoteResults("GALA", "GUSDC", tradeSize)}
       : p \in PriceResults(symbol)}

----------------------------------------------------------------------------
(* The state machine.                                                      *)

(* BinanceTradingStrategy, part_010: defaultConfig (lines 30-44), the      *)
(* hourly window (line 121) and the cooldown of a side (lines 168, 217)    *)
maxTradesPerHour == 10
defaultTradeAmount == 10000
HOUR_MS == 3600000
TRADE_COOLDOWN_MS == 300000
PairSymbols == {"GALAUSDT"}
TradeKeys == {"GALAUSDT-BUY", "GALAUSDT-SELL"}

(* the strategy is constructed when Date.now() is far above the cooldown,  *)
(* so that a side never traded is out of its cooldown                      *)
TradingStart == TRADE_COOLDOWN_MS

Init ==
  /\ clock = StartClock
  /\ lastArbitrageCheck = 0
  /\ gwethFailureCount = 0
  /\ gwethLastFailureTime = 0
  /\ allowLoss \in BOOLEAN
  /\ pc = "idle"
  /\ market \in Markets
  /\ tokens = <<>>
  /\ tokenIdx = 0
  /\ validSizes = <<>>
  /\ sizeIdx = 0
  /\ shouldSkipGweth = FALSE
  /\ availableUsdt = 0
  /\ bestOpportunity = NULL
  /\ allOpportunities = <<>>
  /\ lastEval = NULL
  /\ calls = {}
  /\ checks = {}
  /\ alerts = <<>>
  /\ executed = NULL
  /\ diagnostic = NULL
  /\ executions = 0
  /\ swapReq = NULL
  /\ sdkSwap = NULL
  /\ binanceOrder = NULL
  /\ order = NULL
  /\ leg1 = "none"
  /\ leg2 = "none"
  /\ exc = FALSE
  /\ tickResult = "none"
  /\ loopPc = "call"
  /\ tickNo = 0
  /\ strategyIdx = 0
  /\ ownData = [swaps |-> FALSE, balances |-> FALSE, tokens |-> FALSE]
  /\ tickErr = "none"
  /\ loopLog = <<>>
  /\ loopAlerts = <<>>
  /\ ticksRunning = 0
  /\ doTickCalls = {}
  /\ feeQuote = NULL
  /\ feeOut = NULL
  /\ tradePc = "idle"
  /\ trade = NULL
  /\ venueFree = NULL
  /\ attempts = 0
  /\ ordersCreated = 0
  /\ v1Pc = "idle"
  /\ v1Sizes = <<>>
  /\ v1Idx = 0
  /\ v1Usdt = 0
  /\ v1Best = NULL
  /\ v1All = <<>>
  /\ v1Executed = NULL
  /\ tradingNow = TradingStart
  /\ hourStartTime = TradingStart
  /\ tradesThisHour = [symbol \in PairSymbols |-> 0]
  /\ lastTradeTime = [key \in TradeKeys |-> 0]
  /\ windowTrades = [symbol \in PairSymbols |-> 0]

feeState == <<feeQuote, feeOut>>

tradeState == <<tradePc, trade, venueFree, attempts, ordersCreated>>

v1State == <<v1Pc, v1Sizes, v1Idx, v1Usdt, v1Best, v1All, v1Executed>>

tradingState == <<tradingNow, hourStartTime, tradesThisHour, lastTradeTime, windowTrades>>

loopState == <<loopPc, tickNo, strategyIdx, ownData, tickErr, loopLog, loopAlerts,
               ticksRunning, doTickCalls>>
instance == <<lastArbitrageCheck, gwethFailureCount, gwethLastFailureTime, allowLoss>>
breaker == <<gwethFailureCount, gwethLastFailureTime>>
loop == <<tokens, tokenIdx, validSizes, sizeIdx, shouldSkipGweth, availableUsdt>>
search == <<bestOpportunity, allOpportunities, lastEval>>
execution == <<alerts, executed, diagnostic, executions, swapReq, sdkSwap, order, binanceOrder,
               leg1, leg2>>

(* time passes between two ticks *)
Advance ==
  /\ pc = "idle"
  /\ UNCHANGED loopState
  /\ UNCHANGED feeState
  /\ UNCHANGED tradeState
  /\ UNCHANGED v1State
  /\ UNCHANGED tradingState
  /\ checks' = {}
  /\ \E dt \in ClockSteps :
       /\ clock + dt <= MaxClock
       /\ clock' = clock + dt
  /\ calls' = {}
  /\ UNCHANGED <<instance, pc, market, loop, search, execution, exc, tickResult>>

RateLimited_Never(now, last) == FALSE

(* doTick, line 96: if (now - this.lastArbitrageCheck <                     *)
(* this.ARBITRAGE_CHECK_INTERVAL)                                          *)
RateLimited(now, last) == now - last < ARBITRAGE_CHECK_INTERVAL

(* doTick, lines 93-221: up to the start of the search *)
DoTick ==
  /\ pc = "idle"
  /\ UNCHANGED loopState
  /\ UNCHANGED feeState
  /\ UNCHANGED tradeState
  /\ UNCHANGED v1State
  /\ UNCHANGED tradingState
  /\ checks' = {}
  /\ \E ownBalances \in Holdings, depsOk \in BOOLEAN, mappingEnabled \in BOOLEAN, m \in Markets :
       LET now == clock
           arbitrageable == ArbitrageableTokens(ownBalances, mappingEnabled)
       IN IF RateLimited(now, lastArbitrageCheck)
            THEN /\ tickResult' = "rateLimited"
                 /\ UNCHANGED <<lastArbitrageCheck, pc, market, tokens, tokenIdx>>
          ELSE /\ lastArbitrageCheck' = now
               /\ IF ~depsOk \/ ~mappingEnabled \/ arbitrageable = <<>>
                    THEN /\ tickResult' = "returned"
                         /\ UNCHANGED <<pc, market, tokens, tokenIdx>>
                    ELSE /\ tickResult' = "running"
                         /\ pc' = "token"
                         /\ market' = m
                         /\ tokens' = arbitrageable
                         /\ tokenIdx' = 1
  /\ calls' = {}
  /\ UNCHANGED <<clock, breaker, allowLoss, validSizes, sizeIdx, shouldSkipGweth,
                 availableUsdt, search, execution, exc>>

(* doTick, lines 245-328: the head of the loop over arbitrageableTokens *)
BeginToken ==
  /\ pc = "token"
  /\ UNCHANGED loopState
  /\ UNCHANGED feeState
  /\ UNCHANGED tradeState
  /\ UNCHANGED v1State
  /\ UNCHANGED tradingState
  /\ checks' = {}
  /\ IF tokenIdx > Len(tokens)
       THEN /\ pc' = "decide"
            /\ UNCHANGED <<validSizes, sizeIdx, shouldSkipGweth, tokenIdx>>
       ELSE LET tokenName == tokens[tokenIdx].collection
                sizes == ValidSizes(tokenName, tokens[tokenIdx].quantity)
            IN IF sizes = <<>>
                 THEN /\ tokenIdx' = tokenIdx + 1
                      /\ UNCHANGED <<pc, validSizes, sizeIdx, shouldSkipGweth>>
                 ELSE /\ validSizes' = sizes
                      /\ sizeIdx' = 1
                      /\ shouldSkipGweth' = ShouldSkipGweth(tokenName, gwethFailureCount,
                                                            gwethLastFailureTime, clock)
                      /\ pc' = "forward"
                      /\ UNCHANGED tokenIdx
  /\ calls' = {}
  /\ UNCHANGED <<clock, instance, market, tokens, availableUsdt, search, execution, exc, tickResult>>

(* doTick, lines 331-542: one trade size of the forward ladder *)
EvalForward ==
  /\ pc = "forward"
  /\ UNCHANGED loopState
  /\ UNCHANGED feeState
  /\ UNCHANGED tradeState
  /\ UNCHANGED v1State
  /\ UNCHANGED tradingState
  /\ LET tokenName == tokens[tokenIdx].collection
         tradeSize == validSizes[sizeIdx]
         outcomes ==
           IF tokenName = "GALA" THEN GalaIteration(tradeSize, shouldSkipGweth)
           ELSE IF ~IsStablecoin(tokenName)
             THEN {[opp |-> r.opp, quote |-> r.quote, calls |-> r.calls, checks |-> r.checks,
                    primary |-> NULL] :
                     r \in TryPairs(tradeSize, tokenName, <<"GUSDC", "GUSDT">>)}
           ELSE {[opp |-> NULL, quote |-> NoQuote, calls |-> {}, checks |-> {}, primary |-> NULL]}
     IN \E r \in outcomes :
          /\ calls' = r.calls
          /\ checks' = r.checks
          /\ IF r.opp = THROWN
               THEN (* an error escaping the evaluator unwinds to doTick's catch *)
                    /\ exc' = TRUE
                    /\ pc' = "catch"
                    /\ UNCHANGED <<breaker, search, sizeIdx>>
               ELSE LET b == IF PrimaryEvaluated(r.calls)
                               THEN BreakerAfter(gwethFailureCount, gwethLastFailureTime, clock, r.primary)
                               ELSE [count |-> gwethFailureCount, last |-> gwethLastFailureTime]
                    IN /\ b.count <= MaxFailures
                       /\ gwethFailureCount' = b.count
                       /\ gwethLastFailureTime' = b.last
                       /\ allOpportunities' = AllAfter(r.opp, allOpportunities, tradeSize,
                                                       "GalaSwap->Binance", tokenName)
                       /\ bestOpportunity' = BestAfter(r.opp, bestOpportunity, allowLoss, tradeSize,
                                                       "GalaSwap->Binance", tokenName)
                       /\ lastEval' = EvalAfter(r.opp, r.quote, tradeSize, "GalaSwap->Binance",
                                                tokenName, lastEval)
                       /\ IF sizeIdx < Len(validSizes)
                            THEN sizeIdx' = sizeIdx + 1 /\ pc' = pc
                            ELSE sizeIdx' = 0 /\ pc' = "revstart"
                       /\ UNCHANGED exc
  /\ UNCHANGED <<clock, lastArbitrageCheck, allowLoss, market, tokens, tokenIdx, validSizes,
                 shouldSkipGweth, availableUsdt, execution, tickResult>>

(* doTick, lines 544-560 and 636-655: the head of the reverse section *)
BeginReverse ==
  /\ pc = "revstart"
  /\ UNCHANGED loopState
  /\ UNCHANGED feeState
  /\ UNCHANGED tradeState
  /\ UNCHANGED v1State
  /\ UNCHANGED tradingState
  /\ checks' = {}
  /\ LET tokenName == tokens[tokenIdx].collection
     IN IF IsStablecoin(tokenName)
          THEN /\ tokenIdx' = tokenIdx + 1
               /\ pc' = "token"
               /\ calls' = {}
               /\ UNCHANGED <<availableUsdt, sizeIdx>>
          ELSE \E balancesOk \in BOOLEAN, usdt \in UsdtBalances :
                 /\ calls' = {"getBalances"}
                 /\ IF balancesOk /\ usdt >= MIN_REVERSE_USDT
                      THEN /\ availableUsdt' = usdt
                           /\ sizeIdx' = 1
                           /\ pc' = "reverse"
                           /\ UNCHANGED tokenIdx
                      ELSE /\ tokenIdx' = tokenIdx + 1
                           /\ pc' = "token"
                           /\ UNCHANGED <<availableUsdt, sizeIdx>>
  /\ UNCHANGED <<clock, instance, market, tokens, validSizes, shouldSkipGweth, search,
                 execution, exc, tickResult>>

(* doTick, lines 562-635: one trade size of the reverse ladder *)
EvalReverse ==
  /\ pc = "reverse"
  /\ UNCHANGED loopState
  /\ UNCHANGED feeState
  /\ UNCHANGED tradeState
  /\ UNCHANGED v1State
  /\ UNCHANGED tradingState
  /\ LET tokenName == tokens[tokenIdx].collection
         tradeSize == validSizes[sizeIdx]
         symbol == GetBinanceSymbol(tokenName, TRUE)
     IN \E r \in ReverseIteration(tradeSize, tokenName, symbol, availableUsdt) :
          /\ calls' = r.calls
          /\ checks' = r.checks
          /\ IF r.opp = THROWN
               THEN (* lines 646-654: the catch of the reverse section ends the *)
                    (* ladder of this token                                     *)
                    /\ sizeIdx' = 0
                    /\ pc' = "token"
                    /\ tokenIdx' = tokenIdx + 1
                    /\ UNCHANGED search
               ELSE /\ allOpportunities' = AllAfter(r.opp, allOpportunities, tradeSize,
                                                    "Binance->GalaSwap", tokenName)
                    /\ bestOpportunity' = BestAfter(r.opp, bestOpportunity, allowLoss, tradeSize,
                                                    "Binance->GalaSwap", tokenName)
                    /\ lastEval' = EvalAfter(r.opp, r.quote, tradeSize, "Binance->GalaSwap",
                                             tokenName, lastEval)
                    /\ IF sizeIdx < Len(validSizes)
                         THEN sizeIdx' = sizeIdx + 1 /\ UNCHANGED <<pc, tokenIdx>>
                         ELSE sizeIdx' = 0 /\ pc' = "token" /\ tokenIdx' = tokenIdx + 1
  /\ UNCHANGED <<clock, instance, market, tokens, validSizes, shouldSkipGweth, availableUsdt,
                 execution, exc, tickResult>>

----------------------------------------------------------------------------
(* any positive profit executes, the minimum is not compared *)
ShouldExecute_NoThreshold(best, allow) ==
  \/ (best # NULL /\ best.netProfit > 0)
  \/ (allow /\ best # NULL /\ best.netProfit <= 0)

(* doTick, lines 658-666 *)
ShouldExecute(best, allow) ==
  \/ (best # NULL /\ best.netProfit > 0 /\ best.netProfit >= MIN_PROFIT_GALA)
  \/ (allow /\ best # NULL /\ best.netProfit <= 0)

(* a catch block that logs and rethrows, as executeArbitrage's does *)
DoTickCatch_Rethrow(e) == e

(* doTick, lines 800-807: the catch block logs; TRUE would mean it rethrows *)
DoTickCatch(e) == FALSE

(* a leg 1 whose failure is swallowed *)
AfterLeg1_Continue(ok) == "leg2"

(* executeArbitrage, lines 1292-1328 and 1526-1545: leg 2 follows a leg 1   *)
(* that returned; a leg 1 that threw unwinds to the catch blocks           *)
AfterLeg1(ok) == IF ok THEN "leg2" ELSE "catch"

(* a failed second leg that is submitted again *)
AfterLeg2Failure_Retry == "leg2"

(* executeArbitrage, lines 1455-1467, and executeReverseArbitrage, lines    *)
(* 1593-1605: the catch logs and rethrows to doTick's catch                *)
AfterLeg2Failure == "catch"

(* an execution after which the decision is taken again *)
AfterExecution_Again == "decide"

(* doTick, lines 705-799: after executeArbitrage returned, the summary log *)
(* and the return                                                          *)
AfterExecution == "done"

(* toFixed(0) of an amount *)
ToFixed0(x) == ((x + 500) \div 1000) * 1000

(* executeArbitrage, lines 1279-1315: the swap of the forward leg 1 *)
ForwardSwapRequest(opportunity, galaAmount) ==
  [offeredToken |-> "GALA",
   offeredQty |-> galaAmount,
   wantedToken |-> opportunity.pair[2],
   wantedQty |-> opportunity.receivingTokenAmount]

(* executeReverseArbitrage, lines 1558-1581: the swap of the reverse leg 2 *)
ReverseSwapRequest(opportunity, galaAmount) ==
  [offeredToken |-> "GALA",
   offeredQty |-> galaAmount,
   wantedToken |-> "GUSDC",
   wantedQty |-> opportunity.receivingTokenAmount]

(* GalaChainRouter.requestSwap (part_005), lines 105-107: slippageTolerance *)
(* = 0.95; quote.outTokenAmount.multipliedBy(slippageTolerance)            *)
SlippageMinimum(amount) == (amount \div 100) * 95 + ((amount % 100) * 95) \div 100

(* GalaChainRouter.requestSwap (part_005), lines 71-119: the quote taken   *)
(* by quoteExactInput at the time of the call fixes the fee tier and the   *)
(* minimum; wanted[0].quantity is not read.  A quote that throws leaves    *)
(* through the catch of lines 135-138 and no swap is submitted.            *)
RequestSwap(swapRequest, quote) ==
  IF quote.kind # "ok" THEN NULL
  ELSE [tokenIn |-> swapRequest.offeredToken,
        tokenOut |-> swapRequest.wantedToken,
        feeTier |-> quote.feeTier,
        exactIn |-> swapRequest.offeredQty,
        amountOutMinimum |-> SlippageMinimum(quote.amountOut)]

(* the LIMIT buy orders of lines 1362-1369, 1428-1435 and 1526-1533;      *)
(* price in 1/1000 of the unit of the market price                         *)
LimitBuy(symbol, quantity, currentPrice) ==
  [symbol |-> symbol, side |-> "BUY", type |-> "LIMIT",
   quantity |-> ToFixed0(quantity), price |-> currentPrice * 1001, timeInForce |-> "GTC"]

(* netProfit.toFixed(4): four decimals, in 1/10000 of a token *)
ToFixed4(x) == x * 10

(* lines 758-760: allOpportunities.reduce((best, opp) =>                   *)
(*   opp.netProfit > best.netProfit ? opp : best)                          *)
RECURSIVE ReduceBest(_, _)
ReduceBest(best, rest) ==
  IF rest = <<>> THEN best
  ELSE ReduceBest(IF Head(rest).netProfit > best.netProfit THEN Head(rest) ELSE best, Tail(rest))

(* doTick, lines 714-785: the log entry of a tick that does not execute,   *)
(* with the fields the code gives it                                       *)
NoExecutionLog(best, all, allow) ==
  IF best # NULL
    THEN [msg |-> "Arbitrage: Opportunity found but not executing",
          netProfit |-> ToFixed4(best.netProfit),
          minRequired |-> MIN_PROFIT_GALA,
          galaAmount |-> best.tradeAmount,
          allowLossTrades |-> allow]
  ELSE IF Len(all) > 0
    THEN LET bestUnprofitable == ReduceBest(Head(all), Tail(all))
         IN [msg |-> "Arbitrage: Check complete - No profitable opportunities found",
             opportunitiesChecked |-> Len(all),
             bestOpportunity |-> [tradeSize |-> bestUnprofitable.tradeSize,
                                  netProfit |-> ToFixed4(bestUnprofitable.netProfit),
                                  pair |-> bestUnprofitable.pair,
                                  direction |-> bestUnprofitable.direction],
             minRequiredProfit |-> MIN_PROFIT_GALA]
  ELSE [msg |-> "Arbitrage: No opportunities found across all tokens"]

(* doTick, lines 658-785: execute the best opportunity, or log why not *)
Decide ==
  /\ pc = "decide"
  /\ UNCHANGED loopState
  /\ UNCHANGED feeState
  /\ UNCHANGED tradeState
  /\ UNCHANGED v1State
  /\ UNCHANGED tradingState
  /\ checks' = {}
  /\ IF ShouldExecute(bestOpportunity, allowLoss)
       THEN \E alertOk \in BOOLEAN :
              /\ alerts' = Append(alerts, IF bestOpportunity.netProfit <= 0 THEN "loss" ELSE "opportunity")
              /\ calls' = {"sendAlert"}
              /\ IF alertOk
                   THEN /\ executed' = bestOpportunity
                        /\ executions' = executions + 1
                        /\ pc' = "leg1"
                        /\ UNCHANGED exc
                   ELSE /\ exc' = TRUE
                        /\ pc' = "catch"
                        /\ UNCHANGED <<executed, executions>>
              /\ UNCHANGED <<tickResult, diagnostic>>
       ELSE /\ pc' = "done"
            /\ tickResult' = "returned"
            /\ calls' = {}
            /\ diagnostic' = NoExecutionLog(bestOpportunity, allOpportunities, allowLoss)
            /\ UNCHANGED <<alerts, executed, executions, exc>>
  /\ UNCHANGED <<clock, instance, market, loop, search, swapReq, sdkSwap, order, binanceOrder,
                 leg1, leg2>>

(* executeArbitrage / executeReverseArbitrage: the first leg *)
ExecLeg1 ==
  /\ pc = "leg1"
  /\ UNCHANGED loopState
  /\ UNCHANGED feeState
  /\ UNCHANGED tradeState
  /\ UNCHANGED v1State
  /\ UNCHANGED tradingState
  /\ checks' = {}
  /\ IF executed.direction = "GalaSwap->Binance"
       THEN LET request == ForwardSwapRequest(executed, executed.tradeAmount)
            IN \E quote \in ExecutionQuoteResults(request.offeredToken, request.wantedToken,
                                                  request.offeredQty),
                  swapOk \in BOOLEAN :
                 LET ok == quote.kind = "ok" /\ swapOk
                 IN /\ swapReq' = request
                    /\ sdkSwap' = RequestSwap(request, quote)
                    /\ calls' = {"requestSwap"}
                    /\ leg1' = IF ok THEN "ok" ELSE "threw"
                    /\ exc' = ~ok
                    /\ pc' = AfterLeg1(ok)
                    /\ UNCHANGED <<order, binanceOrder>>
       ELSE \E p \in PriceResults("GALAUSDT"), ok \in BOOLEAN, status \in OrderStatuses :
              IF p = NoPrice
                THEN /\ calls' = {"getPrice:exec"}
                     /\ exc' = TRUE
                     /\ pc' = "catch"
                     /\ UNCHANGED <<order, binanceOrder, leg1, swapReq, sdkSwap>>
                ELSE /\ order' = LimitBuy("GALAUSDT", executed.tradeAmount, p)
                     /\ calls' = {"getPrice:exec", "executeTradeForArbitrage"}
                     /\ leg1' = IF ok THEN "ok" ELSE "threw"
                     /\ exc' = ~ok
                     /\ pc' = AfterLeg1(ok)
                     /\ binanceOrder' = IF ok THEN [status |-> status] ELSE binanceOrder
                     /\ UNCHANGED <<swapReq, sdkSwap>>
  /\ UNCHANGED <<clock, instance, market, loop, search, alerts, executed, diagnostic,
                 executions, leg2, tickResult>>

(* executeArbitrage / executeReverseArbitrage: the second leg *)
ExecLeg2 ==
  /\ pc = "leg2"
  /\ UNCHANGED loopState
  /\ UNCHANGED feeState
  /\ UNCHANGED tradeState
  /\ UNCHANGED v1State
  /\ UNCHANGED tradingState
  /\ checks' = {}
  /\ IF executed.direction = "GalaSwap->Binance"
       THEN LET receivingToken == executed.pair[2]
                symbol == IF receivingToken = "GWETH" THEN "GALAETH" ELSE "GALAUSDT"
                (* GALAETH is quoted in 1/1000000 ETH, GALAUSDT in 1/1000 USD *)
                scale == IF receivingToken = "GWETH" THEN 1000000 ELSE 1000
            IN \E p \in PriceResults(symbol), ok \in BOOLEAN :
                 IF p = NoPrice
                   THEN /\ calls' = {"getPrice:exec"}
                        /\ leg2' = "skipped"
                        /\ exc' = (receivingToken # "GWETH")
                        /\ pc' = IF receivingToken = "GWETH" THEN AfterExecution ELSE "catch"
                        /\ tickResult' = IF receivingToken = "GWETH" THEN "returned" ELSE tickResult
                        /\ UNCHANGED <<order, binanceOrder, swapReq, sdkSwap>>
                   ELSE /\ order' = LimitBuy(symbol, (executed.receivingTokenAmount * scale) \div p, p)
                        /\ calls' = {"getPrice:exec", "executeTradeForArbitrage"}
                        /\ leg2' = IF ok THEN "ok" ELSE "threw"
                        /\ exc' = (~ok /\ receivingToken # "GWETH")
                        /\ pc' = IF ok \/ receivingToken = "GWETH" THEN AfterExecution
                                  ELSE AfterLeg2Failure
                        /\ tickResult' = IF ok \/ receivingToken = "GWETH" THEN "returned" ELSE tickResult
                        /\ UNCHANGED <<swapReq, sdkSwap, binanceOrder>>
       ELSE LET request == ReverseSwapRequest(executed, executed.tradeAmount)
            IN \E quote \in ExecutionQuoteResults(request.offeredToken, request.wantedToken,
                                                  request.offeredQty),
                  swapOk \in BOOLEAN :
                 LET ok == quote.kind = "ok" /\ swapOk
                 IN /\ swapReq' = request
                    /\ sdkSwap' = RequestSwap(request, quote)
                    /\ calls' = {"requestSwap"}
                    /\ leg2' = IF ok THEN "ok" ELSE "threw"
                    /\ exc' = ~ok
                    /\ pc' = IF ok THEN AfterExecution ELSE AfterLeg2Failure
                    /\ tickResult' = IF ok THEN "returned" ELSE tickResult
                    /\ UNCHANGED <<order, binanceOrder>>
  /\ UNCHANGED <<clock, instance, market, loop, search, alerts, executed, diagnostic,
                 executions, leg1>>

(* doTick, lines 800-807: catch (error) { logger.error(...) } *)
Catch ==
  /\ pc = "catch"
  /\ UNCHANGED loopState
  /\ UNCHANGED feeState
  /\ UNCHANGED tradeState
  /\ UNCHANGED v1State
  /\ UNCHANGED tradingState
  /\ checks' = {}
  /\ exc' = DoTickCatch(exc)
  /\ tickResult' = IF DoTickCatch(exc) THEN "threw" ELSE "returned"
  /\ pc' = "done"
  /\ calls' = {}
  /\ UNCHANGED <<clock, instance, market, loop, search, execution>>

(* doTick, lines 809-813: the call is over, its locals are gone *)
EndTick ==
  /\ pc = "done"
  /\ UNCHANGED loopState
  /\ UNCHANGED feeState
  /\ UNCHANGED tradeState
  /\ UNCHANGED v1State
  /\ UNCHANGED tradingState
  /\ checks' = {}
  /\ pc' = "idle"
  /\ tokens' = <<>>
  /\ tokenIdx' = 0
  /\ validSizes' = <<>>
  /\ sizeIdx' = 0
  /\ shouldSkipGweth' = FALSE
  /\ availableUsdt' = 0
  /\ bestOpportunity' = NULL
  /\ allOpportunities' = <<>>
  /\ lastEval' = NULL
  /\ calls' = {}
  /\ alerts' = <<>>
  /\ executed' = NULL
  /\ diagnostic' = NULL
  /\ executions' = 0
  /\ swapReq' = NULL
  /\ sdkSwap' = NULL
  /\ binanceOrder' = NULL
  /\ order' = NULL
  /\ leg1' = "none"
  /\ leg2' = "none"
  /\ exc' = FALSE
  /\ UNCHANGED <<clock, instance, market, tickResult>>

Next ==
  \/ Advance
  \/ DoTick
  \/ BeginToken
  \/ EvalForward
  \/ BeginReverse
  \/ EvalReverse
  \/ Decide
  \/ ExecLeg1
  \/ ExecLeg2
  \/ Catch
  \/ EndTick

Spec == Init /\ [][Next]_vars

----------------------------------------------------------------------------
(* The main loop (tick_loop.ts: mainLoop, mainLoopTick; bot_main.ts: main).*)

strategyState == <<clock, instance, pc, market, loop, search, calls, checks, execution, exc,
                   tickResult>>

(* bot_main.ts, line 29: const strategiesToUse = [...] *)
strategiesToUse == <<"BasicSwapAccepterStrategy", "BasicSwapCreatorStrategy">>

(* bot_main.ts, lines 251-258: the options literal given to mainLoop has   *)
(* binanceApi, binanceTrading, galaDeFiApi, galaChainRouter and            *)
(* tokenConfig; tick_loop (part_003), lines 335-347, hands the same        *)
(* options object to doTick, so options.binanceMappingConfig is undefined  *)
DoTickOptions ==
  [binanceApi |-> TRUE, binanceTrading |-> TRUE, galaChainRouter |-> TRUE,
   tokenConfig |-> [binance |-> [enabled |-> TRUE]], binanceMappingConfig |-> NULL]

StrategyCount == Len(strategiesToUse)

(* what one strategy's turn in mainLoopTick can do: return nothing to do,  *)
(* return actions that are all carried out, or throw (from doTick or from  *)
(* one of the awaited actions)                                             *)
StrategyOutcomes == {"nothing", "acted", "threw"}

(* mainLoop, lines 477-482: while (true) { await mainLoopTick(...); await   *)
(* sleep(loopWaitMs); } has no handler, so an error leaving mainLoopTick   *)
(* leaves mainLoop and reaches the catch of main()                         *)
AfterTickError == "mainCatch"

AfterCall_NoAwait == "sleep"

(* mainLoop, line 479: await mainLoopTick(...params): the loop goes on only *)
(* when the promise of the tick has settled, so after the call control is  *)
(* inside the tick                                                         *)
AfterCall == "prices"

(* mainLoop, lines 478-479, and mainLoopTick, lines 154-229: the call of   *)
(* the tick and its fetches, each with its own fallback to an empty list   *)
LoopCallTick ==
  /\ loopPc = "call"
  /\ tickNo < MaxTicks
  /\ tickNo' = tickNo + 1
  /\ \E swapsOk \in BOOLEAN, balancesOk \in BOOLEAN, tokensOk \in BOOLEAN :
       ownData' = [swaps |-> swapsOk, balances |-> balancesOk, tokens |-> tokensOk]
  /\ ticksRunning' = ticksRunning + 1
  /\ doTickCalls' = {}
  /\ loopPc' = AfterCall
  /\ UNCHANGED <<strategyIdx, tickErr, loopLog, loopAlerts>>
  /\ UNCHANGED strategyState
  /\ UNCHANGED feeState
  /\ UNCHANGED tradeState
  /\ UNCHANGED v1State
  /\ UNCHANGED tradingState

(* mainLoopTick, lines 253-331: aggregatePrices, priceStore.addPrices and  *)
(* the diff of the own swaps, awaited without a handler of their own       *)
LoopPrices ==
  /\ loopPc = "prices"
  /\ \E ok \in BOOLEAN :
       IF ok THEN /\ loopPc' = "strategy"
                  /\ strategyIdx' = 1
                  /\ UNCHANGED tickErr
            ELSE /\ loopPc' = "tickCatch"
                 /\ tickErr' = "prices"
                 /\ UNCHANGED strategyIdx
  /\ UNCHANGED <<tickNo, ownData, loopLog, loopAlerts, ticksRunning, doTickCalls>>
  /\ UNCHANGED strategyState
  /\ UNCHANGED feeState
  /\ UNCHANGED tradeState
  /\ UNCHANGED v1State
  /\ UNCHANGED tradingState

(* mainLoopTick, lines 334-468: one strategy of the loop over strategies   *)
LoopStrategy ==
  /\ loopPc = "strategy"
  /\ IF strategyIdx > StrategyCount
       THEN /\ loopPc' = "sleep"
            /\ strategyIdx' = 0
            /\ UNCHANGED <<tickErr, doTickCalls>>
       ELSE \E r \in StrategyOutcomes :
              /\ doTickCalls' = doTickCalls \cup
                                  {[strategy |-> strategiesToUse[strategyIdx],
                                    options |-> DoTickOptions]}
              /\ loopPc' = CASE r = "nothing" -> "strategy"
                             [] r = "acted" -> "sleep"
                             [] r = "threw" -> "tickCatch"
              /\ strategyIdx' = CASE r = "nothing" -> strategyIdx + 1
                                  [] r = "acted" -> 0
                                  [] r = "threw" -> strategyIdx
              /\ tickErr' = IF r = "threw" THEN "strategy" ELSE tickErr
  /\ ticksRunning' = IF loopPc' = "sleep" THEN ticksRunning - 1 ELSE ticksRunning
  /\ UNCHANGED <<tickNo, ownData, loopLog, loopAlerts>>
  /\ UNCHANGED strategyState
  /\ UNCHANGED feeState
  /\ UNCHANGED tradeState
  /\ UNCHANGED v1State
  /\ UNCHANGED tradingState

(* mainLoopTick, lines 470-474: catch (err) { logger.error(err); await     *)
(* reporter.sendAlert(...); throw err; }  A sendAlert that throws replaces *)
(* the error; either way an error leaves mainLoopTick.                     *)
LoopTickCatch ==
  /\ loopPc = "tickCatch"
  /\ loopLog' = Append(loopLog, "tick")
  /\ loopAlerts' = Append(loopAlerts, "Error in main loop")
  /\ \E alertOk \in BOOLEAN : tickErr' = IF alertOk THEN tickErr ELSE "alert"
  /\ loopPc' = AfterTickError
  /\ ticksRunning' = ticksRunning - 1
  /\ UNCHANGED <<tickNo, strategyIdx, ownData, doTickCalls>>
  /\ UNCHANGED strategyState
  /\ UNCHANGED feeState
  /\ UNCHANGED tradeState
  /\ UNCHANGED v1State
  /\ UNCHANGED tradingState

(* bot_main.ts, lines 261-271: the catch around mainLoop logs, tries one   *)
(* alert and then sleeps for ever: while (true) { await sleep(10_000); }   *)
MainCatch ==
  /\ loopPc = "mainCatch"
  /\ loopLog' = Append(loopLog, "main")
  /\ loopAlerts' = Append(loopAlerts, "Entering eternal sleep")
  /\ loopPc' = "eternalSleep"
  /\ UNCHANGED <<tickNo, strategyIdx, ownData, tickErr, ticksRunning, doTickCalls>>
  /\ UNCHANGED strategyState
  /\ UNCHANGED feeState
  /\ UNCHANGED tradeState
  /\ UNCHANGED v1State
  /\ UNCHANGED tradingState

(* mainLoop, line 480: await sleep(loopWaitMs) *)
LoopSleep ==
  /\ loopPc = "sleep"
  /\ loopPc' = "call"
  /\ ownData' = [swaps |-> FALSE, balances |-> FALSE, tokens |-> FALSE]
  /\ UNCHANGED <<tickNo, strategyIdx, tickErr, loopLog, loopAlerts, ticksRunning,
                 doTickCalls>>
  /\ UNCHANGED strategyState
  /\ UNCHANGED feeState
  /\ UNCHANGED tradeState
  /\ UNCHANGED v1State
  /\ UNCHANGED tradingState

MainNext ==
  \/ LoopCallTick
  \/ LoopPrices
  \/ LoopStrategy
  \/ LoopTickCatch
  \/ MainCatch
  \/ LoopSleep

SpecMain == Init /\ [][MainNext]_vars

-----------------------------------------------------------------------------
(* The fee-tier conversions: the two versions of the class and the helpers *)
(* of fee_tiers.ts, applied to the tier a quote carries.  Rates in parts   *)
(* per million.                                                            *)

(* fee_tiers.ts, lines 12-30 *)
FEE_TIERS == <<500, 3000, 10000>>

(* x * ppm / 1000000 for the rates above 100%, without leaving 32 bits *)
MulRateWide(x, ppm) ==
  (x \div 10000) * (ppm \div 100) + ((x % 10000) * (ppm \div 100)) \div 10000

(* arbitrage_strategy.ts, lines 627 and 846: feeTier / 10000 *)
ActualGalaSwapFeeRateV1(feeTier) == feeTier * 100

(* fee_tiers.ts, lines 35-37: return feeTier / 10000 *)
getFeeTierPercentage(feeTier) == feeTier * 100

(* Number.prototype.toFixed(2) of a value given in hundredths *)
TwoDigits(n) == IF n < 10 THEN "0" \o ToString(n) ELSE ToString(n)
ToFixed2(hundredths) == ToString(hundredths \div 100) \o "." \o TwoDigits(hundredths % 100)

(* fee_tiers.ts, lines 42-44: `${(feeTier / 100).toFixed(2)}%` *)
getFeeTierPercentageString(feeTier) == ToFixed2(feeTier) \o "%"

(* a quote arrives: feeTier 0 stands for a quote without feeTier *)
FeeQuoteArrives ==
  /\ \E tier \in {0, 500, 3000, 10000}, amount \in {TRADE_SIZE_OPTIONS[i] : i \in DOMAIN TRADE_SIZE_OPTIONS} :
       feeQuote' = [feeTier |-> tier, galaAmount |-> amount]
  /\ feeOut' = NULL
  /\ UNCHANGED <<strategyState, loopState, tradeState, v1State, tradingState>>

(* arbitrage_strategy.ts, lines 626-627, and the fee of line 712 *)
EstimateFeeV1 ==
  /\ feeQuote # NULL
  /\ LET feeTier == QuoteFeeTier(feeQuote)
     IN feeOut' = [by |-> "arbitrage_strategy.ts", feeTier |-> feeTier,
                   rate |-> ActualGalaSwapFeeRateV1(feeTier),
                   fee |-> MulRateWide(feeQuote.galaAmount, ActualGalaSwapFeeRateV1(feeTier))]
  /\ UNCHANGED <<feeQuote, strategyState, loopState, tradeState, v1State, tradingState>>

(* part_011, lines 927-933 and 1049 *)
EstimateFee ==
  /\ feeQuote # NULL
  /\ LET feeTier == QuoteFeeTier(feeQuote)
     IN feeOut' = [by |-> "part_011", feeTier |-> feeTier,
                   rate |-> ActualGalaSwapFeeRate(feeTier),
                   fee |-> MulRate(feeQuote.galaAmount, ActualGalaSwapFeeRate(feeTier))]
  /\ UNCHANGED <<feeQuote, strategyState, loopState, tradeState, v1State, tradingState>>

(* fee_tiers.ts, lines 35-37, on one of the tiers of FEE_TIERS *)
ShowFeeTierPercentage ==
  /\ feeQuote # NULL
  /\ \E i \in DOMAIN FEE_TIERS : feeQuote.feeTier = FEE_TIERS[i]
  /\ feeOut' = [by |-> "getFeeTierPercentage", feeTier |-> feeQuote.feeTier,
                rate |-> getFeeTierPercentage(feeQuote.feeTier)]
  /\ UNCHANGED <<feeQuote, strategyState, loopState, tradeState, v1State, tradingState>>

(* fee_tiers.ts, lines 42-44, on one of the tiers of FEE_TIERS *)
ShowFeeTierPercentageString ==
  /\ feeQuote # NULL
  /\ \E i \in DOMAIN FEE_TIERS : feeQuote.feeTier = FEE_TIERS[i]
  /\ feeOut' = [by |-> "getFeeTierPercentageString", feeTier |-> feeQuote.feeTier,
                text |-> getFeeTierPercentageString(feeQuote.feeTier)]
  /\ UNCHANGED <<feeQuote, strategyState, loopState, tradeState, v1State, tradingState>>

FeeNext ==
  \/ FeeQuoteArrives
  \/ EstimateFeeV1
  \/ EstimateFee
  \/ ShowFeeTierPercentage
  \/ ShowFeeTierPercentageString

SpecFees == Init /\ [][FeeNext]_vars

-----------------------------------------------------------------------------
(* BinanceTrading.executeTrade / executeTradeForArbitrage and               *)
(* BinanceApi.placeOrder with its retry.  Quantities and balances in       *)
(* 1/1000 of the asset, prices in 1/1000000 of the quote asset.            *)

(* binance_api.ts, line 440: retries: this.options.maxRetries ?? 5 *)
DEFAULT_MAX_RETRIES == 5

(* DEPLOYMENT_CONFIGURATION.md, lines 311-329: binance.trading of          *)
(* config/token_config.json                                                *)
TradingConfigMin == 10000
TradingConfigMax == 10000000
TradingPairs == {[symbol |-> "GALAUSDT", baseAsset |-> "GALA", quoteAsset |-> "USDT"],
                 [symbol |-> "BTCUSDT", baseAsset |-> "BTC", quoteAsset |-> "USDT"]}

(* the trades the callers hand in: price is present on LIMIT orders only   *)
NoTradePrice == 0
Trades ==
  {[symbol |-> "GALAUSDT", side |-> "BUY", type |-> "LIMIT", quantity |-> 500000, price |-> 20020],
   [symbol |-> "GALAUSDT", side |-> "BUY", type |-> "MARKET", quantity |-> 10000, price |-> NoTradePrice],
   [symbol |-> "GALAUSDT", side |-> "SELL", type |-> "MARKET", quantity |-> 500000, price |-> NoTradePrice],
   [symbol |-> "GALAETH", side |-> "BUY", type |-> "LIMIT", quantity |-> 500000, price |-> 8]}

(* free balances on venue B *)
VenueBalances ==
  {[USDT |-> u, ETH |-> e, GALA |-> g] : u \in {0, 15000}, e \in {0, 10}, g \in {0, 1000000}}

(* binance_trading.ts, lines 204-208: the configured pair, else            *)
(* symbol.replace(/USDT|BTC|ETH|BNB$/, '')                                 *)
getBaseAsset(symbol) ==
  IF \E pair \in TradingPairs : pair.symbol = symbol
    THEN (CHOOSE pair \in TradingPairs : pair.symbol = symbol).baseAsset
  ELSE IF symbol = "GALAETH" THEN "GALA"
  ELSE symbol

(* binance_trading.ts, lines 210-214: pair?.quoteAsset || 'USDT' *)
getQuoteAsset(symbol) ==
  IF \E pair \in TradingPairs : pair.symbol = symbol
    THEN (CHOOSE pair \in TradingPairs : pair.symbol = symbol).quoteAsset
  ELSE "USDT"

(* binance_trading.ts, lines 34-46: the free balance, 0 when the asset is  *)
(* missing and 0 when getBalances throws                                   *)
getAvailableBalance(asset, free, fetchOk) ==
  IF ~fetchOk THEN 0
  ELSE IF asset \in DOMAIN free THEN free[asset]
  ELSE 0

(* lines 72-74 and 95-97: trade.price ? quantity * price : quantity *)
TradeAmount(t) ==
  IF t.price # NoTradePrice THEN ((t.quantity \div 1000) * t.price) \div 1000 ELSE t.quantity

(* binance_trading.ts, lines 48-111: every check before the order is       *)
(* placed; "place" when none of them throws                                *)
ExecuteTradeChecks(t, skipAmountChecks, enabled, free, fetchOk) ==
  IF ~skipAmountChecks /\ ~enabled THEN "disabled"
  ELSE IF ~skipAmountChecks /\ TradeAmount(t) < TradingConfigMin THEN "belowMinimum"
  ELSE IF ~skipAmountChecks /\ TradeAmount(t) > TradingConfigMax THEN "aboveMaximum"
  ELSE IF t.side = "BUY"
    THEN (IF getAvailableBalance(getQuoteAsset(t.symbol), free, fetchOk) < TradeAmount(t)
            THEN "insufficient" ELSE "place")
  ELSE (IF getAvailableBalance(getBaseAsset(t.symbol), free, fetchOk) < t.quantity
          THEN "insufficient" ELSE "place")

(* executeTrade (skipAmountChecks false) or executeTradeForArbitrage       *)
(* (true), up to the call of placeOrder                                    *)
ExecuteTrade ==
  /\ tradePc = "idle"
  /\ \E t \in Trades, skipAmountChecks \in BOOLEAN, enabled \in BOOLEAN,
        free \in VenueBalances, fetchOk \in BOOLEAN :
       /\ trade' = [symbol |-> t.symbol, side |-> t.side, type |-> t.type,
                    quantity |-> t.quantity, price |-> t.price,
                    skipAmountChecks |-> skipAmountChecks]
       /\ venueFree' = [free |-> free, fetchOk |-> fetchOk]
       /\ tradePc' = IF ExecuteTradeChecks(t, skipAmountChecks, enabled, free, fetchOk) = "place"
                       THEN "placing" ELSE "threw"
  /\ attempts' = 0
  /\ ordersCreated' = 0
  /\ UNCHANGED <<strategyState, loopState, feeState, v1State, tradingState>>

(* what one POST /api/v3/order can end in: the order in the response, no   *)
(* response at all, or an error status                                     *)
AttemptOutcomes ==
  {[kind |-> "ok", status |-> 200], [kind |-> "network", status |-> 0],
   [kind |-> "http", status |-> 500], [kind |-> "http", status |-> 400],
   [kind |-> "http", status |-> 429], [kind |-> "http", status |-> 401]}

(* an attempt whose outcome the caller cannot know: venue B may have       *)
(* created the order                                                       *)
OutcomeUnknown(outcome) ==
  outcome.kind = "network" \/ (outcome.kind = "http" /\ outcome.status >= 500)

(* binance_api.ts, lines 450-471: shouldRetry *)
ShouldRetry(outcome) ==
  ~(/\ outcome.kind = "http"
    /\ outcome.status < 500
    /\ outcome.status # 400
    /\ outcome.status # 404
    /\ outcome.status # 429)

(* binance_api.ts, lines 317-323 and 438-473: one attempt of the           *)
(* order-creation request under pRetry; binance_trading.ts, lines 144-161  *)
PlaceOrderAttempt ==
  /\ tradePc = "placing"
  /\ \E outcome \in AttemptOutcomes, created \in BOOLEAN :
       /\ (created /\ outcome.kind # "ok") => OutcomeUnknown(outcome)
       /\ (outcome.kind = "ok") => created
       /\ attempts' = attempts + 1
       /\ ordersCreated' = ordersCreated + (IF created THEN 1 ELSE 0)
       /\ tradePc' = IF outcome.kind = "ok" THEN "returned"
                     ELSE IF ShouldRetry(outcome) /\ attempts' <= DEFAULT_MAX_RETRIES THEN "placing"
                     ELSE "threw"
  /\ UNCHANGED <<trade, venueFree>>
  /\ UNCHANGED <<strategyState, loopState, feeState, v1State, tradingState>>

(* the call has returned the order or thrown *)
TradeSettled ==
  /\ (tradePc = "returned" \/ tradePc = "threw")
  /\ tradePc' = "idle"
  /\ trade' = NULL
  /\ venueFree' = NULL
  /\ attempts' = 0
  /\ ordersCreated' = 0
  /\ UNCHANGED <<strategyState, loopState, feeState, v1State, tradingState>>

TradeNext ==
  \/ ExecuteTrade
  \/ PlaceOrderAttempt
  \/ TradeSettled

SpecTrade == Init /\ [][TradeNext]_vars

-----------------------------------------------------------------------------
(* doTick of src/strategies/arbitrage/arbitrage_strategy.ts, the version   *)
(* of the class in which ALLOW_LOSS_TRADES is true: the ladder, the        *)
(* selection of bestOpportunity and the decision to execute.  What the     *)
(* evaluators return at each size is an input.                             *)

(* arbitrage_strategy.ts, lines 32-45 *)
ALLOW_LOSS_TRADES_V1 == TRUE
MIN_PROFIT_GALA_V1 == 1000
MIN_GALA_AMOUNT_V1 == 1000000
TRADE_SIZE_OPTIONS_V1 == <<1000000, 2000000, 3000000, 4000000, 5000000>>

(* the GALA balance of the wallet at the tick *)
GalaBalancesV1 == {500000, 1000000, 2500000}

(* the netProfit of what checkArbitrageOpportunity and                     *)
(* checkReverseArbitrageOpportunity can return                             *)
ProfitsV1 == {-3000, -1200, 400, 2500}
OutcomesV1 == {NULL} \cup {[netProfit |-> n] : n \in ProfitsV1}

(* lines 147-149: the options within the balance and the minimum, sorted *)
ValidSizesV1(availableGala) ==
  SortAsc(SelectSeq(TRADE_SIZE_OPTIONS_V1,
                    LAMBDA size : size <= availableGala /\ size >= MIN_GALA_AMOUNT_V1))

(* lines 290-297 and 354-360: the entry pushed to allOpportunities *)
AllAfterV1(opp, all, tradeSize, direction) ==
  IF opp = NULL THEN all
  ELSE Append(all, [tradeSize |-> tradeSize, netProfit |-> opp.netProfit,
                    direction |-> direction])

(* lines 300-306 and 362-368: only a positive netProfit is compared with   *)
(* the best                                                                *)
BestAfterV1(opp, best, tradeSize, direction) ==
  IF opp # NULL /\ opp.netProfit > 0 /\ (best = NULL \/ opp.netProfit > best.netProfit)
    THEN [netProfit |-> opp.netProfit, tradeAmount |-> tradeSize, direction |-> direction]
    ELSE best

(* lines 406-409: isProfitable || shouldExecuteLoss *)
ShouldExecuteV1(best) ==
  \/ (best # NULL /\ best.netProfit > 0 /\ best.netProfit >= MIN_PROFIT_GALA_V1)
  \/ (ALLOW_LOSS_TRADES_V1 /\ best # NULL /\ best.netProfit <= 0)

(* lines 113-176: the balance check and the ladder *)
DoTickV1 ==
  /\ v1Pc = "idle"
  /\ \E availableGala \in GalaBalancesV1 :
       IF availableGala < MIN_GALA_AMOUNT_V1
         THEN /\ v1Pc' = "done"
              /\ v1Sizes' = <<>>
              /\ v1Idx' = 0
         ELSE /\ v1Pc' = "forward"
              /\ v1Sizes' = ValidSizesV1(availableGala)
              /\ v1Idx' = 1
  /\ v1Best' = NULL
  /\ v1All' = <<>>
  /\ v1Executed' = NULL
  /\ v1Usdt' = 0
  /\ UNCHANGED <<strategyState, loopState, feeState, tradeState, tradingState>>

(* lines 178-318: one size of the forward ladder *)
EvalForwardV1 ==
  /\ v1Pc = "forward"
  /\ \E opp \in OutcomesV1 :
       /\ v1All' = AllAfterV1(opp, v1All, v1Sizes[v1Idx], "GalaSwap->Binance")
       /\ v1Best' = BestAfterV1(opp, v1Best, v1Sizes[v1Idx], "GalaSwap->Binance")
  /\ IF v1Idx < Len(v1Sizes)
       THEN v1Idx' = v1Idx + 1 /\ v1Pc' = v1Pc
       ELSE v1Idx' = 0 /\ v1Pc' = "revstart"
  /\ UNCHANGED <<v1Sizes, v1Usdt, v1Executed>>
  /\ UNCHANGED <<strategyState, loopState, feeState, tradeState, tradingState>>

(* lines 322-334 and 383-399: the USDT balance of venue B, or the error of *)
(* getBalances caught and logged                                           *)
BeginReverseV1 ==
  /\ v1Pc = "revstart"
  /\ \E free \in UsdtBalances, fetched \in BOOLEAN :
       /\ v1Usdt' = IF fetched THEN free ELSE 0
       /\ IF fetched /\ free >= MIN_REVERSE_USDT
            THEN v1Pc' = "reverse" /\ v1Idx' = 1
            ELSE v1Pc' = "decide" /\ v1Idx' = 0
  /\ UNCHANGED <<v1Sizes, v1Best, v1All, v1Executed>>
  /\ UNCHANGED <<strategyState, loopState, feeState, tradeState, tradingState>>

(* lines 336-381: one size of the reverse ladder; no price, or a size the  *)
(* USDT balance does not cover, is passed over                             *)
EvalReverseV1 ==
  /\ v1Pc = "reverse"
  /\ \E opp \in OutcomesV1, pGala \in PriceResults("GALAUSDT") :
       LET usdtNeeded == (v1Sizes[v1Idx] * pGala) \div 1000
           r == IF pGala = NoPrice \/ usdtNeeded > v1Usdt THEN NULL ELSE opp
       IN /\ v1All' = AllAfterV1(r, v1All, v1Sizes[v1Idx], "Binance->GalaSwap")
          /\ v1Best' = BestAfterV1(r, v1Best, v1Sizes[v1Idx], "Binance->GalaSwap")
  /\ IF v1Idx < Len(v1Sizes)
       THEN v1Idx' = v1Idx + 1 /\ v1Pc' = v1Pc
       ELSE v1Idx' = 0 /\ v1Pc' = "decide"
  /\ UNCHANGED <<v1Sizes, v1Usdt, v1Executed>>
  /\ UNCHANGED <<strategyState, loopState, feeState, tradeState, tradingState>>

(* lines 401-457: executeArbitrage is invoked with the best opportunity,   *)
(* or nothing is executed                                                  *)
DecideV1 ==
  /\ v1Pc = "decide"
  /\ v1Executed' = IF ShouldExecuteV1(v1Best) THEN v1Best ELSE NULL
  /\ v1Pc' = "done"
  /\ UNCHANGED <<v1Sizes, v1Idx, v1Usdt, v1Best, v1All>>
  /\ UNCHANGED <<strategyState, loopState, feeState, tradeState, tradingState>>

(* doTick has returned *)
EndTickV1 ==
  /\ v1Pc = "done"
  /\ v1Pc' = "idle"
  /\ v1Sizes' = <<>>
  /\ v1Idx' = 0
  /\ v1Usdt' = 0
  /\ v1Best' = NULL
  /\ v1All' = <<>>
  /\ v1Executed' = NULL
  /\ UNCHANGED <<strategyState, loopState, feeState, tradeState, tradingState>>

NextV1 ==
  \/ DoTickV1
  \/ EvalForwardV1
  \/ BeginReverseV1
  \/ EvalReverseV1
  \/ DecideV1
  \/ EndTickV1

SpecV1 == Init /\ [][NextV1]_vars

-----------------------------------------------------------------------------
(* BinanceTradingStrategy.doTick, part_010, over the pair of defaultConfig. *)
(* Amounts in 1/1000, time in ms.                                          *)

(* the time between two ticks *)
TradingSteps == {300000}

(* time passes between two ticks *)
TradingAdvance ==
  /\ \E d \in TradingSteps :
       /\ tradingNow + d <= MaxTradingClock
       /\ tradingNow' = tradingNow + d
  /\ UNCHANGED <<hourStartTime, tradesThisHour, lastTradeTime, windowTrades>>
  /\ UNCHANGED <<strategyState, loopState, feeState, tradeState, v1State>>

(* lines 119-124: the counters are cleared once an hour has passed *)
WindowElapsed(now, start) == now - start >= HOUR_MS

(* line 130: the pair is passed over *)
PairRateLimited(count) == maxTradesPerHour # 0 /\ count >= maxTradesPerHour

(* lines 164-170 and 210-219: FORCE_TEST_TRADE is false *)
CooldownPassed(now, last) == now - last >= TRADE_COOLDOWN_MS

(* lines 117-243: one tick over the pair GALAUSDT.  tradesThisHourForPair  *)
(* is read once, before the BUY; each side that executeTrade returns an    *)
(* order for sets the counter to tradesThisHourForPair + 1.                *)
TradingDoTick ==
  /\ \E hasDependencies \in BOOLEAN, hasPrice \in BOOLEAN,
        quoteBalance \in UsdtBalances, baseBalance \in {0, 1000000},
        buyReturns \in BOOLEAN, sellReturns \in BOOLEAN :
       LET symbol == "GALAUSDT"
           now == tradingNow
           cleared == WindowElapsed(now, hourStartTime)
           counters == IF cleared THEN [s \in PairSymbols |-> 0] ELSE tradesThisHour
           window == IF cleared THEN [s \in PairSymbols |-> 0] ELSE windowTrades
           tradesThisHourForPair == counters[symbol]
           tradeAmount == defaultTradeAmount
           baseAmountForTrade == (tradeAmount * 1000) \div market.GALAUSDT
           buys == /\ quoteBalance >= tradeAmount
                   /\ CooldownPassed(now, lastTradeTime["GALAUSDT-BUY"])
                   /\ buyReturns
           sells == /\ baseBalance >= baseAmountForTrade
                    /\ CooldownPassed(now, lastTradeTime["GALAUSDT-SELL"])
                    /\ sellReturns
           executed_ == (IF buys THEN 1 ELSE 0) + (IF sells THEN 1 ELSE 0)
       IN IF ~hasDependencies
            THEN UNCHANGED <<hourStartTime, tradesThisHour, lastTradeTime, windowTrades>>
          ELSE /\ hourStartTime' = IF cleared THEN now ELSE hourStartTime
               /\ IF PairRateLimited(tradesThisHourForPair) \/ ~hasPrice
                    THEN /\ tradesThisHour' = counters
                         /\ windowTrades' = window
                         /\ UNCHANGED lastTradeTime
                    ELSE /\ tradesThisHour' =
                              IF buys \/ sells
                                THEN [counters EXCEPT ![symbol] = tradesThisHourForPair + 1]
                                ELSE counters
                         /\ windowTrades' = [window EXCEPT ![symbol] = @ + executed_]
                         /\ lastTradeTime' =
                              [key \in TradeKeys |->
                                 IF (key = "GALAUSDT-BUY" /\ buys) \/ (key = "GALAUSDT-SELL" /\ sells)
                                   THEN now ELSE lastTradeTime[key]]
  /\ UNCHANGED tradingNow
  /\ UNCHANGED <<strategyState, loopState, feeState, tradeState, v1State>>

TradingNext ==
  \/ TradingAdvance
  \/ TradingDoTick

SpecTrading == Init /\ [][TradingNext]_vars

----------------------------------------------------------------------------
(* Properties.                                                             *)

Forward == "GalaSwap->Binance"
Reverse == "Binance->GalaSwap"
SearchCalls == {"getQuote:GWETH", "getQuote:stable", "getPrice:search", "getBalances"}
Profits == {allOpportunities[i].netProfit : i \in DOMAIN allOpportunities}
BreakerOpen ==
  /\ gwethFailureCount >= GWETH_MAX_FAILURES
  /\ clock - gwethLastFailureTime < GWETH_RETRY_INTERVAL

(* C1: with loss tolerance disabled, executeArbitrage is never invoked for *)
(* an opportunity whose netProfit is below MIN_PROFIT_GALA, whatever its   *)
(* direction.                                                              *)
C1_NoLossGuard ==
  (~allowLoss /\ executed # NULL) => executed.netProfit >= MIN_PROFIT_GALA

(* the best candidate of a tick is profitable but below the minimum, and   *)
(* the tick ended without an execution                                     *)
C1_Witness ==
  /\ ~allowLoss
  /\ pc = "done"
  /\ bestOpportunity # NULL
  /\ bestOpportunity.netProfit > 0
  /\ bestOpportunity.netProfit < MIN_PROFIT_GALA
  /\ executions = 0

(* C2: when leg 1 succeeded and leg 2 threw, exactly one "unbalanced       *)
(* position" alert has been sent through reporter.sendAlert by the end of  *)
(* the tick.                                                               *)
C2_OneUnbalancedAlert ==
  (pc = "done" /\ leg1 = "ok" /\ leg2 = "threw")
    => Cardinality({i \in DOMAIN alerts : alerts[i] = "unbalanced"}) = 1

(* C3: leg 2 is submitted only after leg 1 returned without throwing: the  *)
(* venue-B order of a forward execution only after requestSwap returned,   *)
(* the venue-A swap of a reverse execution only after the buy returned.    *)
C3_Leg2OnlyAfterLeg1 ==
  /\ (executed # NULL /\ executed.direction = Forward /\ order # NULL) => leg1 = "ok"
  /\ (executed # NULL /\ executed.direction = Reverse /\ swapReq # NULL) => leg1 = "ok"
  /\ leg2 # "none" => leg1 = "ok"

(* a leg 1 that threw, with no leg 2 after it, in either direction *)
C3_Witness ==
  /\ pc = "done"
  /\ leg1 = "threw"
  /\ leg2 = "none"
  /\ executed.direction = Reverse
  /\ swapReq = NULL

(* C4: while the breaker is open (three or more consecutive failures, the  *)
(* last one less than GWETH_RETRY_INTERVAL ago) no step calls getQuote for *)
(* GALA/GWETH, be it a later size of the same tick or a later tick.        *)
C4_OpenBreakerSkips ==
  [][BreakerOpen => "getQuote:GWETH" \notin calls']_vars

OwnPrice(token) == IF token = "GWETH" THEN market.ETHUSDT ELSE market.GALAUSDT

(* C6: the counterAmountBuyable of a forward opportunity is the USD value  *)
(* of intermediateAmountReceived divided by the venue-B price of the       *)
(* source token itself.                                                    *)
C6_BuyableAtOwnPrice ==
  (lastEval # NULL /\ lastEval.direction = Forward) =>
    LET o == lastEval.opp
        usd == IF o.pair[2] = "GWETH"
                 THEN (o.receivingTokenAmount * market.ETHUSDT) \div 1000
                 ELSE o.receivingTokenAmount
    IN o.galaBuyableOnBinance = (usd * 1000) \div OwnPrice(lastEval.token)

(* C7: leg 1 of a forward execution offers tradeSize of the opportunity's  *)
(* source token and wants intermediateAmountReceived of its intermediate   *)
(* token.                                                                  *)
C7_Leg1SellsSource ==
  (executed # NULL /\ executed.direction = Forward /\ swapReq # NULL) =>
    /\ swapReq.offeredToken = executed.token
    /\ swapReq.offeredQty = executed.tradeAmount
    /\ swapReq.wantedToken = executed.pair[2]
    /\ swapReq.wantedQty = executed.receivingTokenAmount

(* C8: at the end of the search the selected opportunity is one of the     *)
(* candidates evaluated in the tick and no candidate has a greater         *)
(* netProfit; a tick with a profitable candidate selects one.              *)
C8_SelectsMaximum ==
  pc = "decide" =>
    /\ bestOpportunity # NULL =>
         /\ \A i \in DOMAIN allOpportunities :
              allOpportunities[i].netProfit <= bestOpportunity.netProfit
         /\ \E i \in DOMAIN allOpportunities :
              /\ allOpportunities[i].netProfit = bestOpportunity.netProfit
              /\ allOpportunities[i].tradeSize = bestOpportunity.tradeAmount
              /\ allOpportunities[i].pair = bestOpportunity.pair
              /\ allOpportunities[i].direction = bestOpportunity.direction
              /\ allOpportunities[i].token = bestOpportunity.token
    /\ (\E n \in Profits : n > 0) => bestOpportunity # NULL

(* three candidates of both directions, the best being the second one *)
C8_Witness ==
  /\ pc = "decide"
  /\ Len(allOpportunities) = 3
  /\ bestOpportunity # NULL
  /\ allOpportunities[1].netProfit > 0
  /\ allOpportunities[2].netProfit > allOpportunities[1].netProfit
  /\ allOpportunities[3].netProfit > 0
  /\ allOpportunities[3].netProfit < allOpportunities[2].netProfit
  /\ allOpportunities[3].direction = Reverse
  /\ bestOpportunity.netProfit = allOpportunities[2].netProfit

(* C9: a tick invokes executeArbitrage at most once, and after the         *)
(* invocation it makes no further search call (quote, search price or      *)
(* balance lookup) and no second execution.                                *)
C9_SingleExecution ==
  /\ [](executions <= 1)
  /\ [][executions >= 1 =>
          \/ pc' = "idle"
          \/ (executions' = executions /\ calls' \cap SearchCalls = {})]_vars

(* an execution completed on both venues in a tick that had evaluated      *)
(* several candidates                                                      *)
C9_Witness ==
  /\ pc = "done"
  /\ executions = 1
  /\ leg2 = "ok"
  /\ Len(allOpportunities) >= 2

(* C10: doTick never ends by throwing; in particular, when leg 1 succeeded *)
(* and leg 2 threw, doTick returns normally.                               *)
C10_TickNeverThrows ==
  /\ tickResult # "threw"
  /\ pc = "done" => tickResult = "returned"

(* leg 1 succeeded, the venue-B order of leg 2 threw up to doTick, and the *)
(* tick returned                                                           *)
C10_Witness ==
  /\ pc = "done"
  /\ leg1 = "ok"
  /\ leg2 = "threw"
  /\ executed.direction = Forward
  /\ IsStablecoin(executed.pair[2])
  /\ tickResult = "returned"

(* C11: an error thrown inside one mainLoopTick is caught at the tick      *)
(* boundary and logged, and the main loop goes on to wait and start the    *)
(* next tick: no single-tick error stops the loop.                         *)
C11_LoopSurvivesTickError ==
  (tickErr # "none" /\ loopPc # "tickCatch") =>
    /\ \E i \in DOMAIN loopLog : loopLog[i] = "tick"
    /\ loopPc \in {"sleep", "call", "prices", "strategy"}

(* C12: checkArbitrageOpportunity and checkReverseArbitrageOpportunity     *)
(* never throw: an evaluation whose venue-A quote failed, for whatever     *)
(* reason, or one of whose venue-B prices is null, returns null; and the   *)
(* driver goes on: after a null primary pair it tries the first alternate  *)
(* pair, and the step of the ladder ends inside the search.                *)
C12_ChecksNeverThrow ==
  /\ [](\A c \in checks :
          /\ c.result # "threw"
          /\ c.reason # "none" => c.result = "null"
          /\ (c.result = "null" /\ c.direction = Forward /\ c.pair = <<"GALA", "GWETH">>)
               => \E d \in checks : d.direction = Forward /\ d.pair = <<"GALA", "GUSDC">>)
  /\ [][(pc = "forward" \/ pc = "reverse")
          => (pc' \in {"forward", "revstart", "reverse", "token"})]_vars

(* one step in which the primary pair had no venue-B price, the first      *)
(* alternate pair failed with a transport error and the second for lack of *)
(* liquidity, and the ladder goes on                                       *)
C12_Witness ==
  /\ pc = "forward"
  /\ \E c \in checks : c.pair = <<"GALA", "GWETH">> /\ c.reason = "price" /\ c.result = "null"
  /\ \E c \in checks : c.pair = <<"GALA", "GUSDC">> /\ c.reason = "error" /\ c.result = "null"
  /\ \E c \in checks : c.pair = <<"GALA", "GUSDT">> /\ c.reason = "liquidity" /\ c.result = "null"
  /\ ~exc

(* C13: an open breaker is not permanent: in a step of the forward ladder  *)
(* of a GALA holding taken when GWETH_RETRY_INTERVAL or more has passed    *)
(* since the last failure, getQuote is called for GALA/GWETH again.        *)
C13_BreakerRetries ==
  [][(/\ pc = "forward"
      /\ tokens[tokenIdx].collection = "GALA"
      /\ gwethFailureCount >= GWETH_MAX_FAILURES
      /\ clock - gwethLastFailureTime >= GWETH_RETRY_INTERVAL)
       => ("getQuote:GWETH" \in calls')]_vars

(* the first size of a tick was quoted on GALA/GWETH although the counter  *)
(* stood at the maximum or above when the tick began: the retry, which     *)
(* failed again                                                            *)
C13_Witness ==
  /\ pc = "forward"
  /\ tokenIdx = 1
  /\ sizeIdx = 2
  /\ "getQuote:GWETH" \in calls
  /\ gwethFailureCount > GWETH_MAX_FAILURES
  /\ gwethLastFailureTime = clock

(* the evaluation of the primary pair GALA/GWETH made by the latest step   *)
PrimaryChecks == {c \in checks : c.direction = Forward /\ c.pair = <<"GALA", "GWETH">>}

(* C14: gwethFailureCount is incremented exactly by the steps in which the *)
(* venue-A quote call for GALA/GWETH failed for lack of pool liquidity; an *)
(* evaluation unavailable for another reason (another error of the quote   *)
(* call, a missing venue-B price) does not increment it.                   *)
C14_CountsLiquidityFailuresOnly ==
  [][(gwethFailureCount' = gwethFailureCount + 1)
       <=> (\E c \in PrimaryChecks' : c.reason = "liquidity")]_vars

(* C15: a step in which the venue-A quote call for GALA/GWETH returned     *)
(* successfully leaves gwethFailureCount at zero, whether or not the       *)
(* venue-B price lookups of that evaluation succeeded.                     *)
C15_QuoteSuccessResets ==
  [][(\E c \in PrimaryChecks' : c.reason \in {"none", "price"})
       => (gwethFailureCount' = 0)]_vars

(* a step of the forward ladder of a GALA holding is due as a retry: the   *)
(* counter is at the maximum and the retry interval has elapsed            *)
RetryDue ==
  /\ pc = "forward"
  /\ tokens[tokenIdx].collection = "GALA"
  /\ gwethFailureCount >= GWETH_MAX_FAILURES
  /\ clock - gwethLastFailureTime >= GWETH_RETRY_INTERVAL

(* the first attempt of the tick's ladder was made with the counter at the *)
(* maximum, so as a retry, and it failed                                   *)
FirstAttemptWasFailedRetry ==
  /\ pc = "forward"
  /\ sizeIdx = 2
  /\ "getQuote:GWETH" \in calls
  /\ gwethFailureCount > GWETH_MAX_FAILURES
  /\ gwethLastFailureTime = clock

(* C16: with the breaker open and the retry interval elapsed, the next     *)
(* attempt is one provisional retry: if it succeeds the counter is zero,   *)
(* if it fails the breaker is open again at once and the following         *)
(* attempts on GALA/GWETH are skipped.                                     *)
C16_SingleProvisionalRetry ==
  /\ [][RetryDue =>
          /\ (\E c \in PrimaryChecks' : c.result = "null") => BreakerOpen'
          /\ (\E c \in PrimaryChecks' : c.result = "value") => (gwethFailureCount' = 0)]_vars
  /\ [][FirstAttemptWasFailedRetry => ("getQuote:GWETH" \notin calls')]_vars

(* the index of the first recorded candidate with the given netProfit *)
FirstWith(profit) ==
  CHOOSE i \in DOMAIN allOpportunities :
    /\ allOpportunities[i].netProfit = profit
    /\ \A j \in DOMAIN allOpportunities : allOpportunities[j].netProfit = profit => i <= j

(* C17: bestOpportunity is replaced only by a candidate whose netProfit is *)
(* strictly greater than that of the current best; so among candidates     *)
(* with equal netProfit the best is the first one evaluated.               *)
C17_StrictReplacement ==
  /\ [](bestOpportunity # NULL =>
          LET first == allOpportunities[FirstWith(bestOpportunity.netProfit)]
          IN /\ first.tradeSize = bestOpportunity.tradeAmount
             /\ first.pair = bestOpportunity.pair
             /\ first.direction = bestOpportunity.direction
             /\ first.token = bestOpportunity.token)
  /\ [][(bestOpportunity # NULL /\ bestOpportunity' # NULL /\ bestOpportunity' # bestOpportunity)
          => (bestOpportunity'.netProfit > bestOpportunity.netProfit)]_vars

(* two sizes of the ladder gave the same netProfit, no candidate gave      *)
(* more, and the best is the smaller size, evaluated first                 *)
C17_Witness ==
  /\ pc = "decide"
  /\ bestOpportunity # NULL
  /\ \E i, j \in DOMAIN allOpportunities :
       /\ i < j
       /\ allOpportunities[i].netProfit = allOpportunities[j].netProfit
       /\ allOpportunities[i].tradeSize < allOpportunities[j].tradeSize
       /\ allOpportunities[i].direction = allOpportunities[j].direction
       /\ bestOpportunity.netProfit = allOpportunities[i].netProfit
       /\ bestOpportunity.tradeAmount = allOpportunities[i].tradeSize

ExecutionCalls == {"requestSwap", "executeTradeForArbitrage"}

(* C18: once leg 2 has failed after a successful leg 1, the tick submits   *)
(* nothing more: no further requestSwap and no further venue-B order, be   *)
(* it a retry or a compensating trade.                                     *)
C18_NoRetryNoRollback ==
  [][(leg1 = "ok" /\ leg2 = "threw") =>
       \/ pc' = "idle"
       \/ /\ calls' \cap ExecutionCalls = {}
          /\ swapReq' = swapReq
          /\ order' = order
          /\ executions' = executions]_vars

(* a reverse execution whose buy on venue B went through and whose swap on *)
(* venue A threw: the tick is over with one order and one swap request     *)
C18_Witness ==
  /\ pc = "done"
  /\ executed # NULL
  /\ executed.direction = Reverse
  /\ leg1 = "ok"
  /\ leg2 = "threw"
  /\ order # NULL
  /\ swapReq # NULL
  /\ executions = 1

(* a tick over a GALA holding has ended in which the primary pair was      *)
(* attempted at every size of the ladder and gave no opportunity at any    *)
PrimaryFailedAtEverySize ==
  /\ pc = "done"
  /\ tokens # <<>>
  /\ tokens[1].collection = "GALA"
  /\ ~shouldSkipGweth
  /\ \A i \in DOMAIN allOpportunities :
       allOpportunities[i].direction = Forward => allOpportunities[i].pair[2] # "GWETH"

(* C19: when the primary pair failed at every size of the ladder and an    *)
(* alternate pair gave, at some size, the selected opportunity with a      *)
(* netProfit above MIN_PROFIT_GALA, executeArbitrage has been invoked in   *)
(* the tick with that opportunity at that size.                            *)
C19_AlternateExecuted ==
  (/\ PrimaryFailedAtEverySize
   /\ bestOpportunity # NULL
   /\ bestOpportunity.direction = Forward
   /\ IsStablecoin(bestOpportunity.pair[2])
   /\ bestOpportunity.netProfit > MIN_PROFIT_GALA)
    => /\ executed # NULL
       /\ executed.pair = bestOpportunity.pair
       /\ executed.tradeAmount = bestOpportunity.tradeAmount
       /\ executed.direction = Forward

(* the log entry d names the netProfit, the trade size and the pair of the *)
(* candidate c                                                             *)
NamesCandidate(d, c) ==
  \/ /\ "bestOpportunity" \in DOMAIN d
     /\ d.bestOpportunity.netProfit = 10 * c.netProfit
     /\ d.bestOpportunity.tradeSize = c.tradeSize
     /\ d.bestOpportunity.pair = c.pair
  \/ /\ {"netProfit", "galaAmount", "pair"} \subseteq DOMAIN d
     /\ d.netProfit = 10 * c.netProfit
     /\ d.galaAmount = c.tradeSize
     /\ d.pair = c.pair

(* C20: a tick that evaluated at least one candidate, none of which        *)
(* reaches MIN_PROFIT_GALA, ends without an execution and with a           *)
(* diagnostic log entry that names the highest netProfit of the tick,      *)
(* negative or not, with the trade size and the pair of that candidate     *)
(* (loss tolerance disabled, as the class sets it).                        *)
C20_NearMissDiagnostic ==
  (/\ pc = "done"
   /\ ~allowLoss
   /\ allOpportunities # <<>>
   /\ \A n \in Profits : n < MIN_PROFIT_GALA)
    => /\ executions = 0
       /\ executed = NULL
       /\ diagnostic # NULL
       /\ \E i \in DOMAIN allOpportunities :
            /\ \A n \in Profits : n <= allOpportunities[i].netProfit
            /\ NamesCandidate(diagnostic, allOpportunities[i])

(***************************************************************************)
(* C21: no tick starts while a previous tick is still running: at most one *)
(* mainLoopTick is in flight, and none is in flight when mainLoop sleeps   *)
(* or is about to call the next tick.                                      *)
(***************************************************************************)
C21_TicksNeverOverlap ==
  /\ ticksRunning <= 1
  /\ (loopPc = "sleep" \/ loopPc = "call") => ticksRunning = 0

C21_Witness == tickNo >= 2 /\ ticksRunning = 1 /\ loopPc = "strategy" /\ strategyIdx = 2

(***************************************************************************)
(* C22: for one instance, two evaluation cycles never start less than      *)
(* ARBITRAGE_CHECK_INTERVAL apart: a doTick call made less than the        *)
(* interval after the last accepted check returns without a call to either *)
(* venue and without touching lastArbitrageCheck, and every accepted check *)
(* is at least the interval after the one before it.                       *)
(***************************************************************************)
C22_RateLimit ==
  [][/\ (pc = "idle" /\ clock' = clock /\ clock - lastArbitrageCheck < ARBITRAGE_CHECK_INTERVAL)
          => /\ pc' = "idle"
             /\ calls' = {}
             /\ lastArbitrageCheck' = lastArbitrageCheck
             /\ tickResult' = "rateLimited"
     /\ lastArbitrageCheck' # lastArbitrageCheck
          => /\ lastArbitrageCheck' = clock
             /\ lastArbitrageCheck' - lastArbitrageCheck >= ARBITRAGE_CHECK_INTERVAL
     /\ (pc = "idle" /\ pc' # "idle") => lastArbitrageCheck' = clock]_vars

(* a call made 30 s after an accepted check has returned rate limited *)
C22_Witness ==
  /\ pc = "idle"
  /\ tickResult = "rateLimited"
  /\ lastArbitrageCheck > 0
  /\ clock > lastArbitrageCheck
  /\ clock - lastArbitrageCheck < ARBITRAGE_CHECK_INTERVAL

(***************************************************************************)
(* C23: the type of the venue-B order the executor submits matches the fee *)
(* rate the evaluator assumed for the executed opportunity: the total fees *)
(* of the opportunity contain the venue-B fee at the maker rate when the   *)
(* order is a LIMIT order and at the taker rate when it is a MARKET order. *)
(***************************************************************************)
FeeTiers == {500, 3000, 10000}

FeesAtRate(opp, rate) ==
  \E tier \in FeeTiers :
    opp.totalFees =
      IF opp.direction = Forward
        THEN MulRate(opp.tradeAmount, tier) + MulRate(opp.galaBuyableOnBinance, rate)
             + GAS_FEE_GALA
        ELSE MulRate((opp.tradeAmount * market.GALAUSDT) \div 1000, rate)
             + MulRate(opp.tradeAmount, tier) + GAS_FEE_GALA

C23_OrderTypeMatchesFee ==
  order # NULL =>
    /\ order.type \in {"LIMIT", "MARKET"}
    /\ order.type = "LIMIT" => (USE_LIMIT_ORDERS /\ FeesAtRate(executed, BINANCE_MAKER_FEE_RATE))
    /\ order.type = "MARKET" => (~USE_LIMIT_ORDERS /\ FeesAtRate(executed, BINANCE_MARKET_FEE_RATE))

(* a forward execution whose leg 2 submitted its venue-B buy order *)
C23_Witness ==
  /\ order # NULL
  /\ executed # NULL
  /\ executed.direction = Forward
  /\ leg2 = "ok"
  /\ order.type = "LIMIT"

(* a reverse execution whose leg 1 submitted its venue-B buy order *)
C23_WitnessReverse ==
  /\ order # NULL
  /\ executed # NULL
  /\ executed.direction = Reverse
  /\ leg1 = "ok"

(***************************************************************************)
(* C24: for every opportunity returned by checkReverseArbitrageOpportunity *)
(* netProfit equals proceeds minus cost with the venue-B buy fee, the      *)
(* venue-A fee and the gas fee each subtracted exactly once, all terms in  *)
(* one unit (USD, then converted to GALA as the function returns it), up   *)
(* to the rounding of the conversions (a tenth of a GALA).                 *)
(***************************************************************************)
ReverseNetProfitOnce(galaAmount, usdtReceived, feeTier, pGala) ==
  LET usdtNeeded == (galaAmount * pGala) \div 1000
      binanceBuyFee == MulRate(usdtNeeded, BinanceFeeRate)
      feesGala == MulRate(galaAmount, feeTier) + GAS_FEE_GALA
      feesUsdt == binanceBuyFee + (feesGala * pGala) \div 1000
  IN ((usdtReceived - usdtNeeded - feesUsdt) * 1000) \div pGala

C24_ReverseNetProfit ==
  (lastEval # NULL /\ lastEval.direction = Reverse) =>
    LET expected == ReverseNetProfitOnce(lastEval.tradeSize, lastEval.quote.amountOut,
                                         QuoteFeeTier(lastEval.quote), market.GALAUSDT)
    IN /\ lastEval.opp.netProfit - expected <= 100
       /\ expected - lastEval.opp.netProfit <= 100

(***************************************************************************)
(* C25: in every version of the class, the venue-A fee rate derived from   *)
(* the quote's fee tier is that tier's documented percentage: 0.0005 for   *)
(* tier 500, 0.003 for tier 3000 and 0.01 for tier 10000.                  *)
(***************************************************************************)
DocumentedRate(feeTier) ==
  CASE feeTier = 500 -> 500
    [] feeTier = 3000 -> 3000
    [] feeTier = 10000 -> 10000

C25_RateIsDocumented ==
  (feeOut # NULL /\ (feeOut.by = "part_011" \/ feeOut.by = "arbitrage_strategy.ts"))
    => feeOut.rate = DocumentedRate(feeOut.feeTier)

(* the part of C25 that is about part_011 alone *)
C25_Part011RateIsDocumented ==
  (feeOut # NULL /\ feeOut.by = "part_011") => feeOut.rate = DocumentedRate(feeOut.feeTier)

(***************************************************************************)
(* C26: getFeeTierPercentage returns 0.0005, 0.003 and 0.01 for the tiers  *)
(* 500, 3000 and 10000, and getFeeTierPercentageString returns "0.05%",    *)
(* "0.30%" and "1.00%".                                                    *)
(***************************************************************************)
DocumentedText(feeTier) ==
  CASE feeTier = 500 -> "0.05%"
    [] feeTier = 3000 -> "0.30%"
    [] feeTier = 10000 -> "1.00%"

C26_HelpersAreDocumented ==
  /\ (feeOut # NULL /\ feeOut.by = "getFeeTierPercentage")
       => feeOut.rate = DocumentedRate(feeOut.feeTier)
  /\ (feeOut # NULL /\ feeOut.by = "getFeeTierPercentageString")
       => feeOut.text = DocumentedText(feeOut.feeTier)

(***************************************************************************)
(* C27: every trade size the driver evaluates for a holding is at most the *)
(* held balance, at most the maximum position size of the asset and at     *)
(* least its minimum, and the sizes of one holding are evaluated in        *)
(* ascending order.                                                        *)
(***************************************************************************)
SizeWithinLimits(size, holding) ==
  /\ size <= holding.quantity
  /\ size <= MaxTradeAmount(holding.collection, holding.quantity)
  /\ size >= MinTradeAmount(holding.collection, holding.quantity)

C27_SizesWithinLimits ==
  /\ (pc = "forward" \/ pc = "reverse") =>
       /\ \A i \in DOMAIN validSizes : SizeWithinLimits(validSizes[i], tokens[tokenIdx])
       /\ \A i, j \in DOMAIN validSizes : i < j => validSizes[i] < validSizes[j]
  /\ (pc # "idle" /\ pc # "done") =>
       /\ \A i \in DOMAIN allOpportunities :
            \E k \in DOMAIN tokens :
              /\ tokens[k].collection = allOpportunities[i].token
              /\ SizeWithinLimits(allOpportunities[i].tradeSize, tokens[k])
       /\ \A i, j \in DOMAIN allOpportunities :
            (/\ i < j
             /\ allOpportunities[i].token = allOpportunities[j].token
             /\ allOpportunities[i].direction = allOpportunities[j].direction)
              => allOpportunities[i].tradeSize < allOpportunities[j].tradeSize

C27_Ascending ==
  [][(pc = pc' /\ (pc = "forward" \/ pc = "reverse") /\ sizeIdx' # sizeIdx)
        => (sizeIdx' = sizeIdx + 1 /\ validSizes' = validSizes /\ tokenIdx' = tokenIdx)]_vars

C27_LadderWithinLimits == []C27_SizesWithinLimits /\ C27_Ascending

(* the balance, not the per-asset maximum, ended the ladder: 500 and 1000  *)
(* GALA were evaluated in that order and 2000 was not offered              *)
C27_Witness ==
  /\ pc = "reverse"
  /\ tokens[tokenIdx].collection = "GALA"
  /\ Len(validSizes) < Len(TRADE_SIZE_OPTIONS)
  /\ Len(allOpportunities) = 2
  /\ allOpportunities[1].direction = Forward
  /\ allOpportunities[2].direction = Forward
  /\ allOpportunities[1].tradeSize = 500000
  /\ allOpportunities[2].tradeSize = tokens[tokenIdx].quantity

(***************************************************************************)
(* C28: in the bot as wired by bot_main, an ArbitrageStrategy instance is  *)
(* in the strategy list given to mainLoop and gets what it needs from      *)
(* mainLoopTick: a tick that ran the whole list has called                 *)
(* ArbitrageStrategy.doTick with the three adapters and an enabled Binance *)
(* mapping config, which is what doTick needs to reach its evaluation.     *)
(***************************************************************************)
ReachesEvaluation(call) ==
  /\ call.strategy = "ArbitrageStrategy"
  /\ call.options.binanceApi
  /\ call.options.binanceTrading
  /\ call.options.galaChainRouter
  /\ call.options.binanceMappingConfig # NULL
  /\ call.options.binanceMappingConfig.enabled

C28_ArbitrageIsWired ==
  (loopPc = "sleep" /\ Cardinality(doTickCalls) = StrategyCount)
    => \E call \in doTickCalls : ReachesEvaluation(call)

(***************************************************************************)
(* C29: the swap GalaChainRouter.requestSwap submits never accepts less of *)
(* the wanted token than the caller's wanted quantity reduced by the       *)
(* slippage tolerance.                                                     *)
(***************************************************************************)
C29_MinimumBoundToWanted ==
  (sdkSwap # NULL /\ swapReq # NULL)
    => sdkSwap.amountOutMinimum >= SlippageMinimum(swapReq.wantedQty)

(***************************************************************************)
(* C30: leg 1 of a forward execution is submitted only if the free         *)
(* quote-currency balance of venue B has been found sufficient for the     *)
(* leg-2 buy: when the swap of a forward execution towards a stablecoin    *)
(* has been submitted, the USDT balance the tick found on venue B covers   *)
(* the USDT the leg-2 order spends.                                        *)
(***************************************************************************)
C30_Leg1OnlyWithFunds ==
  (/\ executed # NULL
   /\ executed.direction = Forward
   /\ IsStablecoin(executed.pair[2])
   /\ swapReq # NULL)
    => availableUsdt >= executed.receivingTokenAmount

(***************************************************************************)
(* C31: after leg 1 of a forward execution has succeeded, executeArbitrage *)
(* never returns normally without having submitted the leg-2 order on      *)
(* venue B: a leg-2 step that places no order ends in a thrown error.      *)
(***************************************************************************)
C31_NoSilentSkip ==
  [][(/\ pc = "leg2"
      /\ executed.direction = Forward
      /\ leg1 = "ok"
      /\ "executeTradeForArbitrage" \notin calls')
       => exc']_vars

(***************************************************************************)
(* C32: in the reverse direction the venue-A sell (leg 2) is submitted     *)
(* only after the venue-B buy order is reported as filled.                 *)
(***************************************************************************)
C32_SellOnlyAfterFill ==
  (executed # NULL /\ executed.direction = Reverse /\ swapReq # NULL)
    => (binanceOrder # NULL /\ binanceOrder.status = "FILLED")

(***************************************************************************)
(* C33: one call of executeTrade or executeTradeForArbitrage creates at    *)
(* most one order on venue B: the order-creation request is not sent again *)
(* after an attempt whose outcome is unknown.                              *)
(***************************************************************************)
C33_AtMostOneOrder == ordersCreated <= 1

(* the asset an order on the symbol spends: the quote asset the symbol     *)
(* names on a BUY, the base asset on a SELL                                *)
SpentAsset(t) ==
  IF t.side = "SELL" THEN "GALA"
  ELSE IF t.symbol = "GALAETH" THEN "ETH"
  ELSE "USDT"

SpentAmount(t) == IF t.side = "SELL" THEN t.quantity ELSE TradeAmount(t)

(***************************************************************************)
(* C37: BinanceTrading never places an order when the free balance of the  *)
(* asset being spent is below the amount the order requires, or when that  *)
(* balance cannot be fetched: the call throws before placeOrder.           *)
(***************************************************************************)
C37_NoOrderWithoutFunds ==
  (tradePc = "placing")
    => (/\ venueFree.fetchOk
        /\ venueFree.free[SpentAsset(trade)] >= SpentAmount(trade))

(* the receiving tokens doTick tries for a GALA holding at one size, in    *)
(* order: the primary pair, then the alternate pairs                       *)
GalaReceivers == <<"GWETH">> \o AlternativeReceivers

(* the latest step evaluated the pair GALA/receiver *)
EvaluatedInStep(receiver) ==
  \E c \in checks : c.direction = Forward /\ c.pair = <<"GALA", receiver>>

(* the latest step got, from the i-th pair of the order, an opportunity    *)
(* whose netProfit does not clear the threshold                            *)
BelowThresholdFrom(i) ==
  /\ \E c \in checks : /\ c.direction = Forward
                        /\ c.pair = <<"GALA", GalaReceivers[i]>>
                        /\ c.result = "value"
  /\ lastEval # NULL
  /\ lastEval.direction = Forward
  /\ lastEval.opp.pair = <<"GALA", GalaReceivers[i]>>
  /\ lastEval.opp.netProfit < MIN_PROFIT_GALA

(***************************************************************************)
(* C34: at each ladder size, a non-null but below-threshold result from    *)
(* the primary pair or from an earlier alternate pair does not stop the    *)
(* remaining alternate pairs from being evaluated at that size.            *)
(***************************************************************************)
C34_AlternatesStillEvaluated ==
  \A i \in DOMAIN GalaReceivers :
    BelowThresholdFrom(i)
      => \A j \in DOMAIN GalaReceivers : j > i => EvaluatedInStep(GalaReceivers[j])

(* every opportunity the tick of arbitrage_strategy.ts evaluated has a     *)
(* netProfit of zero or less, and there is one                             *)
AllLossesV1 ==
  /\ v1All # <<>>
  /\ \A i \in DOMAIN v1All : v1All[i].netProfit <= 0

(***************************************************************************)
(* C35: when ALLOW_LOSS_TRADES is true and every opportunity evaluated in  *)
(* a tick has netProfit <= 0, the least-negative opportunity is selected   *)
(* and executeArbitrage is invoked with it.                                *)
(***************************************************************************)
C35_LeastNegativeExecuted ==
  (ALLOW_LOSS_TRADES_V1 /\ v1Pc = "done" /\ AllLossesV1)
    => /\ v1Executed # NULL
       /\ \A i \in DOMAIN v1All : v1Executed.netProfit >= v1All[i].netProfit
       /\ \E i \in DOMAIN v1All : /\ v1Executed.netProfit = v1All[i].netProfit
                                    /\ v1Executed.tradeAmount = v1All[i].tradeSize
                                    /\ v1Executed.direction = v1All[i].direction

(***************************************************************************)
(* C36: only primary-pair (GALA/GWETH) evaluations change the              *)
(* circuit-breaker state: a step that skips the primary pair, evaluates    *)
(* alternate pairs only, evaluates a non-GALA holding or evaluates the     *)
(* reverse direction leaves gwethFailureCount and gwethLastFailureTime     *)
(* unchanged.                                                              *)
(***************************************************************************)
C36_OnlyPrimaryChangesBreaker ==
  [][(breaker' # breaker)
       => (/\ pc = "forward"
           /\ tokens[tokenIdx].collection = "GALA"
           /\ ~shouldSkipGweth
           /\ PrimaryChecks' # {})]_vars

(* with the breaker open, a step has evaluated an alternate pair and not   *)
(* the primary pair, and the breaker state is as the third failure left it *)
C36_Witness ==
  /\ shouldSkipGweth
  /\ PrimaryChecks = {}
  /\ \E c \in checks : c.direction = Forward /\ c.pair = <<"GALA", "GUSDC">>
  /\ gwethFailureCount = GWETH_MAX_FAILURES
  /\ gwethLastFailureTime > 0

(***************************************************************************)
(* C38: BinanceTradingStrategy executes at most maxTradesPerHour (10)      *)
(* trades per trading pair within one hourly counting window, counting BUY *)
(* and SELL orders alike.                                                  *)
(***************************************************************************)
C38_AtMostMaxTradesPerHour ==
  \A symbol \in PairSymbols : windowTrades[symbol] <= maxTradesPerHour

====
